---- MODULE Spec2Model ----
(***************************************************************************)
(* Solar billing / PPA engine (ppa_generator.py, main.py).                 *)
(*                                                                         *)
(* Instants are whole days counted from 1 January 2022; every              *)
(* comparison the code makes on datetimes (<=, timedelta.days, replace)    *)
(* is made here on day numbers.  Tariff rates are integers in units of     *)
(* 1e-5 currency/kWh (100000 units make one currency unit) and             *)
(* escalation rates are exact fractions num/den, so that the product       *)
(* tariff * (1+e)^k is an exact fraction and round(x, 4) is an actual      *)
(* rounding step.  Optional values are sequences: <<>> is None and <<v>>   *)
(* is the value v.  Stores (ppas, invoices, db.discoms) are functions     *)
(* from document ids to documents; their DOMAIN is the set of documents    *)
(* that exist.  db.tariffs is the sequence of tariff documents in the      *)
(* order a query returns them.                                             *)
(***************************************************************************)
EXTENDS Integers, Sequences, FiniteSets, TLC

VARIABLES now, ppas, resp, obj, invoices, db

vars == <<now, ppas, resp, obj, invoices, db>>

None == <<>>

Some(v) == <<v>>

\* the collections discoms, tariffs and energy_usage with no document in
\* them (energy_usage in the order its documents were created)
EmptyDb == [discoms |-> <<>>, tariffs |-> <<>>, energy_usage |-> <<>>]

\* ---------------------------------------------------------------- bounds

MaxDay == 400

MaxTariffDay == 2300

MaxSlabs == 2

MaxTotal == 2

\* ------------------------------------------------------- civil calendar

Years == 2022..2030

IsLeap(y) == (y % 4 = 0) /\ ((y % 100 # 0) \/ (y % 400 = 0))

DaysInYear(y) == IF IsLeap(y) THEN 366 ELSE 365

DaysInMonth(y, m) ==
    IF m = 2 THEN (IF IsLeap(y) THEN 29 ELSE 28)
    ELSE IF m \in {4, 6, 9, 11} THEN 30 ELSE 31

RECURSIVE YearStart(_)
YearStart(y) == IF y <= 2022 THEN 0 ELSE YearStart(y - 1) + DaysInYear(y - 1)

RECURSIVE MonthStart(_, _)
MonthStart(y, m) == IF m <= 1 THEN 0 ELSE MonthStart(y, m - 1) + DaysInMonth(y, m - 1)

\* datetime(y, m, d) as a day number
DaysFromCivil(y, m, d) == YearStart(y) + MonthStart(y, m) + (d - 1)

\* the (year, month, day) of a day number
CivilFromDays(n) ==
    LET y == CHOOSE yy \in Years : YearStart(yy) <= n /\ n < YearStart(yy + 1)
        r == n - YearStart(y)
        m == CHOOSE mm \in 1..12 : MonthStart(y, mm) <= r /\ r < MonthStart(y, mm) + DaysInMonth(y, mm)
    IN  [year |-> y, month |-> m, day |-> r - MonthStart(y, m) + 1]

\* datetime.replace(year=y): None when the day does not exist in year y
\* (29 February), where Python raises ValueError
ReplaceYear(n, y) ==
    LET c == CivilFromDays(n)
    IN  IF c.day > DaysInMonth(y, c.month) THEN None
        ELSE Some(DaysFromCivil(y, c.month, c.day))

\* ------------------------------------------------------ exact fractions

Frac(n, d) == [num |-> n, den |-> d]

\* x * (1 + e) for fractions x and e
Escalate(x, e) == Frac(x.num * (e.den + e.num), x.den * e.den)

\* int(n / d) of Python: truncation toward zero (d > 0)
TruncDiv(n, d) == IF n >= 0 THEN n \div d ELSE -((-n) \div d)

\* nearest integer to n/d, ties to even (n >= 0, d > 0)
RoundHalfEven(n, d) ==
    LET q == n \div d
        r == n % d
    IN  IF 2 * r < d THEN q
        ELSE IF 2 * r > d THEN q + 1
        ELSE IF q % 2 = 0 THEN q ELSE q + 1

\* round(x, 4) of a fraction of rate units: a multiple of 1e-4
Round4(x) == 10 * RoundHalfEven(x.num, 10 * x.den)

\* ------------------------------------------------------------ PPA model

ContractStatus == {"draft", "active", "expired", "terminated"}

EscalationType == {"fixed_percentage", "cpi_linked", "wholesale_price_index", "custom_schedule"}

\* BillingTerms(...) with the defaults of the class
BillingTerms(tariff, etype, erate, sched, cycle, bmodel) ==
    [tariff_rate |-> tariff, escalation_type |-> etype, escalation_rate |-> erate,
     escalation_schedule |-> sched, billing_cycle |-> cycle, payment_terms |-> "net30",
     business_model |-> bmodel]

\* a PPA document as the store holds it and as PPA(**doc) loads it
PPADoc(customer, start, end, status, terms) ==
    [customer_id |-> customer, billing_terms |-> terms,
     start_date |-> start, end_date |-> end, contractStatus |-> status,
     signed_at |-> None, total_energy_produced |-> 0, total_billed |-> 0,
     total_paid |-> 0, last_billing_date |-> None, next_billing_date |-> None,
     business_model |-> "capex",
     tenure_years |-> Frac(4 * (end - start), 1461),
     escalation_history |-> <<>>,
     payment_history |-> <<>>, energy_production_history |-> <<>>,
     billing_history |-> <<>>]

\* is_active without the upper end of the date window
IsActive_NoEndCheck(ppa, t) ==
    /\ ppa.contractStatus = "active"
    /\ ppa.start_date <= t

\* PPA.is_active at wall-clock instant t
IsActive(ppa, t) ==
    /\ ppa.contractStatus = "active"
    /\ ppa.start_date <= t
    /\ t <= ppa.end_date

\* should_generate_invoice with strict thresholds (> instead of >=)
ShouldGenerateInvoice_Strict(ppa, t) ==
    IF ~(ppa.contractStatus = "active" /\ ppa.start_date <= t /\ t <= ppa.end_date) THEN FALSE
    ELSE IF ppa.last_billing_date = None THEN TRUE
    ELSE LET days == t - ppa.last_billing_date[1]
             cycle == ppa.billing_terms.billing_cycle
         IN  IF cycle = "monthly" THEN days > 30
             ELSE IF cycle = "quarterly" THEN days > 90
             ELSE IF cycle = "annually" THEN days > 365
             ELSE FALSE

\* should_generate_invoice without the is_active() guard
ShouldGenerateInvoice_NoActiveCheck(ppa, t) ==
    IF ppa.last_billing_date = None THEN TRUE
    ELSE LET days == t - ppa.last_billing_date[1]
             cycle == ppa.billing_terms.billing_cycle
         IN  IF cycle = "monthly" THEN days >= 30
             ELSE IF cycle = "quarterly" THEN days >= 90
             ELSE IF cycle = "annually" THEN days >= 365
             ELSE FALSE

\* PPA.should_generate_invoice at wall-clock instant t
ShouldGenerateInvoice(ppa, t) ==
    IF ~IsActive(ppa, t) THEN FALSE
    ELSE IF ppa.last_billing_date = None THEN TRUE
    ELSE LET days == t - ppa.last_billing_date[1]
             cycle == ppa.billing_terms.billing_cycle
         IN  IF cycle = "monthly" THEN days >= 30
             ELSE IF cycle = "quarterly" THEN days >= 90
             ELSE IF cycle = "annually" THEN days >= 365
             ELSE FALSE

\* PPA._record_escalation: append unless the year is already recorded
RecordEscalation(hist, year, erate, newRate, t) ==
    IF \E i \in 1..Len(hist) : hist[i].year = year THEN hist
    ELSE Append(hist, [year |-> year, escalation_rate |-> erate,
                       new_tariff_rate |-> newRate, date_applied |-> t])

\* for _ in range(n): rate *= (1 + e)
RECURSIVE Compound(_, _, _)
Compound(x, e, n) == IF n <= 0 THEN x ELSE Compound(Escalate(x, e), e, n - 1)

\* the loop over the custom schedule: entries i..Len(sched), with the rate
\* and the escalation history accumulated so far
RECURSIVE ScheduleLoop(_, _, _, _, _, _)
ScheduleLoop(sched, i, currentYear, rate, hist, t) ==
    IF i > Len(sched) THEN [rate |-> rate, hist |-> hist]
    ELSE IF sched[i].year <= currentYear
         THEN LET r == Escalate(rate, sched[i].escalation_rate)
              IN  ScheduleLoop(sched, i + 1, currentYear, r,
                               RecordEscalation(hist, sched[i].year, sched[i].escalation_rate, r, t), t)
         ELSE ScheduleLoop(sched, i + 1, currentYear, rate, hist, t)

\* PPA.calculate_current_tariff(current_date) called at wall-clock instant t:
\* the value returned (rate units) and the escalation history it leaves
CalculateCurrentTariff(ppa, currentDate, t) ==
    LET bt == ppa.billing_terms
        periods == TruncDiv(4 * (currentDate - ppa.start_date), 1461)
        currentYear == periods + 1
        same(v) == [rate |-> v, hist |-> ppa.escalation_history]
    IN  IF ~IsActive(ppa, t) THEN same(0)
        ELSE IF bt.escalation_type = "fixed_percentage"
             THEN same(Round4(Compound(Frac(bt.tariff_rate, 1), bt.escalation_rate, periods)))
        ELSE IF bt.escalation_type = "custom_schedule"
             THEN IF bt.escalation_schedule = None \/ bt.escalation_schedule[1] = <<>>
                  THEN same(bt.tariff_rate)
                  ELSE LET out == ScheduleLoop(bt.escalation_schedule[1], 1, currentYear,
                                               Frac(bt.tariff_rate, 1), ppa.escalation_history, t)
                       IN  [rate |-> Round4(out.rate), hist |-> out.hist]
        ELSE same(bt.tariff_rate)

\* calculate_slab_rate(consumption_kwh, slabs): "not slab.max_consumption"
\* holds for None and for 0
CalculateSlabRate(consumption, slabs) ==
    LET hit(i) == /\ slabs[i].min_consumption <= consumption
                  /\ \/ slabs[i].max_consumption = None
                     \/ slabs[i].max_consumption[1] = 0
                     \/ consumption < slabs[i].max_consumption[1]
    IN  IF \E i \in 1..Len(slabs) : hit(i)
        THEN slabs[CHOOSE i \in 1..Len(slabs) : hit(i) /\ \A j \in 1..(i - 1) : ~hit(j)].rate
        ELSE IF Len(slabs) > 0 THEN slabs[Len(slabs)].rate ELSE 0

\* ------------------------------------------------------------ responses

NoResp == [op |-> "none"]

\* =================================================================
\* SpecTariff: one PPA object in memory; the clock advances and
\* calculate_current_tariff is called on it with arbitrary dates.
\* =================================================================

TariffRates == {800000, 800012}

EscalationRates == {Frac(1, 10), Frac(1, 4)}

ScheduleEntry(y, e) == [year |-> y, escalation_rate |-> e]

\* schedules the validator accepts (unique years, none below 1), in any order
Schedules ==
    {None, Some(<<>>),
     Some(<<ScheduleEntry(1, Frac(1, 10))>>),
     Some(<<ScheduleEntry(2, Frac(1, 4))>>),
     Some(<<ScheduleEntry(1, Frac(1, 10)), ScheduleEntry(2, Frac(1, 4))>>),
     Some(<<ScheduleEntry(3, Frac(1, 4)), ScheduleEntry(1, Frac(1, 10))>>)}

StartDates == {DaysFromCivil(2023, 3, 1), DaysFromCivil(2024, 3, 1)}

\* the contract runs three calendar years
EndOf(start) == ReplaceYear(start, CivilFromDays(start).year + 3)[1]

TariffObjs ==
    {PPADoc("c1", DaysFromCivil(2023, 3, 1), EndOf(DaysFromCivil(2023, 3, 1)), st,
            BillingTerms(800000, et, Frac(1, 10),
                         Some(<<ScheduleEntry(1, Frac(1, 10)), ScheduleEntry(2, Frac(1, 4))>>),
                         "monthly", "capex")) :
        st \in ContractStatus, et \in EscalationType}
    \cup
    {PPADoc("c1", sd, EndOf(sd), "active",
            BillingTerms(tr, "fixed_percentage", er, None, "monthly", "capex")) :
        sd \in StartDates, tr \in TariffRates, er \in EscalationRates}
    \cup
    {PPADoc("c1", sd, EndOf(sd), "active",
            BillingTerms(tr, "custom_schedule", Frac(1, 10), sc, "monthly", "capex")) :
        sd \in StartDates, tr \in TariffRates, sc \in Schedules}

\* current_date arguments, as offsets in days from the contract start
DateOffsets == {-366, -365, -1, 0, 1, 364, 365, 366, 730, 731, 1095, 1096}

InitTariff ==
    /\ obj \in TariffObjs
    /\ invoices = <<>>
    /\ db = EmptyDb
    /\ now \in {0, obj.start_date, obj.end_date}
    /\ ppas = <<>>
    /\ resp = NoResp

\* a year of wall-clock time passes
TickYear ==
    /\ now + 365 <= MaxTariffDay
    /\ now' = now + 365
    /\ UNCHANGED <<ppas, resp, obj, invoices, db>>

\* ppa.calculate_current_tariff(current_date) on the object
CallCalculateCurrentTariff(d) ==
    LET out == CalculateCurrentTariff(obj, d, now)
    IN  /\ resp' = [op |-> "calculate_current_tariff", date |-> d, at |-> now,
                    rate |-> out.rate]
        /\ obj' = [obj EXCEPT !.escalation_history = out.hist]
        /\ UNCHANGED <<now, ppas, invoices, db>>

NextTariff ==
    \/ TickYear
    \/ \E o \in DateOffsets : CallCalculateCurrentTariff(obj.start_date + o)

SpecTariff == InitTariff /\ [][NextTariff]_vars

\* =================================================================
\* SpecSlab: calculate_slab_rate on bounded slab lists.
\* =================================================================

SlabChoices ==
    [min_consumption : {0, 100},
     max_consumption : {None, Some(0), Some(100), Some(200)},
     rate : {850000, 600000}]

RECURSIVE SeqsUpTo(_, _)
SeqsUpTo(S, n) ==
    IF n = 0 THEN {<<>>}
    ELSE LET shorter == SeqsUpTo(S, n - 1)
         IN  shorter \cup {Append(q, x) : q \in {r \in shorter : Len(r) = n - 1}, x \in S}

Consumptions == {0, 50, 100, 150, 250}

InitSlab ==
    /\ now = 0
    /\ ppas = <<>>
    /\ obj \in [consumption : Consumptions, slabs : SeqsUpTo(SlabChoices, MaxSlabs)]
    /\ invoices = <<>>
    /\ db = EmptyDb
    /\ resp = NoResp

CallCalculateSlabRate ==
    /\ resp = NoResp
    /\ resp' = [op |-> "calculate_slab_rate",
                rate |-> CalculateSlabRate(obj.consumption, obj.slabs)]
    /\ UNCHANGED <<now, ppas, obj, invoices, db>>

NextSlab == CallCalculateSlabRate

SpecSlab == InitSlab /\ [][NextSlab]_vars

\* =================================================================
\* Spec: the document store of PPAs, the wall clock, and the engine
\* operations generate_ppa, mark_ppa_as_signed and update_ppa_billing.
\* resp is the record of the last operation: its request, the instant
\* it ran at, and its outcome.
\* =================================================================

PpaIds == {"p1", "p2"}

\* the first instant of the model: 1 January 2023
Day0 == DaysFromCivil(2023, 1, 1)

TickSteps == {30, 365}

BillingCycles == {"monthly", "quarterly", "annually"}

PaymentTerms == {"net15", "net30", "net45", "net60"}

Exists(id) == id \in DOMAIN ppas

\* documents already in the store: a contract of about a year in each
\* status, starting 30 days after Day0, and an active one starting at Day0
\* in each billing cycle ("weekly" is a cycle the model class accepts and
\* no branch handles)
InitDocs ==
    {PPADoc("c1", Day0 + 30, Day0 + 370, st,
            BillingTerms(800000, "fixed_percentage", Frac(1, 10), None, "monthly", "capex")) :
        st \in ContractStatus}
    \cup
    {PPADoc("c1", Day0, Day0 + 370, "active",
            BillingTerms(800000, "fixed_percentage", Frac(1, 10), None, cy, "capex")) :
        cy \in BillingCycles \cup {"weekly"}}

InitStore == \E d \in InitDocs : ppas = [id \in {"p1"} |-> d]

Init ==
    /\ now = Day0
    /\ InitStore
    /\ resp = NoResp
    /\ obj = None
    /\ invoices = <<>>
    /\ db = EmptyDb

\* wall-clock time passes
Tick ==
    /\ \E step \in TickSteps :
         /\ now + step <= Day0 + MaxDay
         /\ now' = now + step
    /\ UNCHANGED <<ppas, resp, obj, invoices, db>>

\* fields of class PPA without a default
PPARequired ==
    {"customer_id", "system_specs", "billing_terms", "start_date", "end_date",
     "contract_duration_years", "current_tariff_rate", "next_escalation_date",
     "tenure_years"}

\* keyword arguments generate_ppa passes to PPA(...)
GeneratePpaKwargs ==
    {"id", "customer_id", "system_specs", "billing_terms", "start_date", "end_date",
     "contractStatus", "created_at", "signed_at", "total_energy_produced",
     "total_billed", "total_paid", "last_billing_date", "contract_duration_years",
     "current_tariff_rate", "next_escalation_date", "payment_history",
     "energy_production_history", "billing_history", "file_path"}

\* the outcome of generate_ppa(customer_id, system_specs, billing_terms,
\* start_date, end_date) at instant t: an error, or the PPA it builds
GeneratePpaOutcome(customer, specs, bt, start, end, t) ==
    LET err(kind, msg) == [result |-> "error", error |-> kind, detail |-> msg]
    IN  IF start >= end THEN err("ValueError", "Start date must be before end date")
        ELSE IF start < t - 365 THEN err("ValueError", "Start date cannot be more than 1 year in the past")
        ELSE IF start > t + 730 THEN err("ValueError", "Start date cannot be more than 2 years in the future")
        ELSE IF specs.capacity_kw <= 0 THEN err("ValueError", "System capacity must be greater than 0")
        ELSE IF specs.panel_type = "" THEN err("ValueError", "Panel type is required")
        ELSE IF specs.inverter_type = "" THEN err("ValueError", "Inverter type is required")
        ELSE IF bt.tariff_rate <= 0 THEN err("ValueError", "Tariff rate must be greater than 0")
        ELSE IF bt.escalation_rate.num < 0 THEN err("ValueError", "Escalation rate cannot be negative")
        ELSE IF bt.billing_cycle \notin BillingCycles THEN err("ValueError", "Invalid billing cycle")
        ELSE IF bt.payment_terms \notin PaymentTerms THEN err("ValueError", "Invalid payment terms")
        ELSE IF ReplaceYear(start, CivilFromDays(start).year + 1) = None
             THEN err("ValueError", "day is out of range for month")
        ELSE IF ~(PPARequired \subseteq GeneratePpaKwargs)
             THEN err("ValidationError", "Field required")
        ELSE [result |-> "ok",
              ppa |-> PPADoc(customer, start, end,
                             IF start <= t THEN "active" ELSE "draft", bt)]

\* generate_ppa: on success the PPA is stored under a fresh document id
GeneratePpa(customer, specs, bt, start, end) ==
    LET out == GeneratePpaOutcome(customer, specs, bt, start, end, now)
        request == [customer_id |-> customer, system_specs |-> specs, billing_terms |-> bt,
                    start_date |-> start, end_date |-> end]
    IN  /\ \E id \in PpaIds \ DOMAIN ppas :
             IF out.result = "ok"
             THEN /\ ppas' = [i \in DOMAIN ppas \cup {id} |-> IF i = id THEN out.ppa ELSE ppas[i]]
                  /\ resp' = [op |-> "generate_ppa", at |-> now, request |-> request,
                              result |-> "ok", id |-> id]
             ELSE /\ ppas' = ppas
                  /\ resp' = [op |-> "generate_ppa", at |-> now, request |-> request,
                              result |-> "error", id |-> id, error |-> out.error]
        /\ UNCHANGED <<now, obj, invoices, db>>

\* mark_ppa_as_signed writing with set(merge) instead of update: a missing
\* document is created
MarkPpaAsSigned_Upsert(id) ==
    /\ IF ~(id \in DOMAIN ppas)
       THEN /\ ppas' = [i \in DOMAIN ppas \cup {id} |->
                          IF i = id THEN [contractStatus |-> "active", signed_at |-> Some(now)]
                          ELSE ppas[i]]
            /\ resp' = [op |-> "mark_ppa_as_signed", id |-> id, result |-> "None",
                        before |-> None]
       ELSE /\ ppas' = [ppas EXCEPT ![id].contractStatus = "active",
                                    ![id].signed_at = Some(now)]
            /\ resp' = [op |-> "mark_ppa_as_signed", id |-> id, result |-> "ok",
                        before |-> Some(ppas[id].contractStatus)]
    /\ UNCHANGED <<now, obj, invoices, db>>

\* mark_ppa_as_signed(ppa_id)
MarkPpaAsSigned(id) ==
    /\ IF ~Exists(id)
       THEN /\ ppas' = ppas
            /\ resp' = [op |-> "mark_ppa_as_signed", id |-> id, result |-> "None",
                        before |-> None]
       ELSE /\ ppas' = [ppas EXCEPT ![id].contractStatus = "active",
                                    ![id].signed_at = Some(now)]
            /\ resp' = [op |-> "mark_ppa_as_signed", id |-> id, result |-> "ok",
                        before |-> Some(ppas[id].contractStatus)]
    /\ UNCHANGED <<now, obj, invoices, db>>

\* datetime.replace(day=1)
FirstOfMonth(n) == DaysFromCivil(CivilFromDays(n).year, CivilFromDays(n).month, 1)

\* update_ppa_billing taking the date it writes as last_billing_date for base
UpdatePpaBilling_BaseNow(id, amount) ==
    /\ IF ~Exists(id)
       THEN /\ ppas' = ppas
            /\ resp' = [op |-> "update_ppa_billing", id |-> id, result |-> "None"]
       ELSE LET ppa == ppas[id]
                cycle == ppa.billing_terms.billing_cycle
                next == IF cycle = "monthly" THEN Some(FirstOfMonth(now + 32))
                        ELSE IF cycle = "quarterly" THEN Some(FirstOfMonth(now + 92))
                        ELSE ppa.next_billing_date
            IN  /\ ppa.total_billed + amount <= MaxTotal
                /\ ppas' = [ppas EXCEPT ![id].total_billed = ppa.total_billed + amount,
                                        ![id].last_billing_date = Some(now),
                                        ![id].next_billing_date = next]
                /\ resp' = [op |-> "update_ppa_billing", id |-> id, result |-> "ok"]
    /\ UNCHANGED <<now, obj, invoices, db>>

\* update_ppa_billing(ppa_id, amount)
UpdatePpaBilling(id, amount) ==
    /\ IF ~Exists(id)
       THEN /\ ppas' = ppas
            /\ resp' = [op |-> "update_ppa_billing", id |-> id, result |-> "None"]
       ELSE LET ppa == ppas[id]
                base == IF ppa.last_billing_date # None THEN ppa.last_billing_date[1]
                        ELSE ppa.start_date
                cycle == ppa.billing_terms.billing_cycle
                next == IF cycle = "monthly" THEN Some(FirstOfMonth(base + 32))
                        ELSE IF cycle = "quarterly" THEN Some(FirstOfMonth(base + 92))
                        ELSE ppa.next_billing_date
            IN  /\ ppa.total_billed + amount <= MaxTotal
                /\ ppas' = [ppas EXCEPT ![id].total_billed = ppa.total_billed + amount,
                                        ![id].last_billing_date = Some(now),
                                        ![id].next_billing_date = next]
                /\ resp' = [op |-> "update_ppa_billing", id |-> id, result |-> "ok"]
    /\ UNCHANGED <<now, obj, invoices, db>>

SystemSpecs == [capacity_kw : {0, 10}, panel_type : {"mono"}, inverter_type : {"string"}]

\* billing terms offered to generate_ppa: valid ones and one fault each
RequestTerms ==
    {BillingTerms(800000, "fixed_percentage", Frac(1, 10), None, cy, "capex") :
        cy \in {"monthly", "annually", "weekly"}}
    \cup {BillingTerms(0, "fixed_percentage", Frac(1, 10), None, "monthly", "capex"),
          BillingTerms(800000, "fixed_percentage", Frac(-1, 10), None, "monthly", "capex"),
          [BillingTerms(800000, "fixed_percentage", Frac(1, 10), None, "monthly", "capex")
             EXCEPT !.payment_terms = "net90"]}

\* start dates offered to generate_ppa, around the instant of the call
RequestStarts == {now - 366, now - 365, now, now + 1, now + 365, now + 730, now + 731}

Next ==
    \/ Tick
    \/ \E id \in PpaIds : MarkPpaAsSigned(id)
    \/ \E id \in PpaIds : UpdatePpaBilling(id, 1)

Spec == Init /\ [][Next]_vars

\* time does not stop
FairSpec == Spec /\ WF_vars(Tick)

\* =================================================================
\* SpecGenerate: generate_ppa called with bounded requests on an empty
\* store, on 1 January 2023 and one year before the leap day of 2024.
\* =================================================================

InitGenerate ==
    /\ now \in {Day0, DaysFromCivil(2024, 2, 29) - 365}
    /\ ppas = <<>>
    /\ resp = NoResp
    /\ obj = None
    /\ invoices = <<>>
    /\ db = EmptyDb

NextGenerate ==
    \E sp \in SystemSpecs, bt \in RequestTerms, sd \in RequestStarts, len \in {0, 365} :
        GeneratePpa("c1", sp, bt, sd, sd + len)

SpecGenerate == InitGenerate /\ [][NextGenerate]_vars

\* =================================================================
\* Properties of the tariff resolver (SpecTariff, SpecSlab)
\* =================================================================

TariffCalled == resp.op = "calculate_current_tariff"

\* C1: calculate_current_tariff returns 0 whenever the contract is inactive
\* at the time of the call: its status is not active, or it has not yet
\* started, or its end date has passed -- for every escalation type and
\* every current_date argument.
C1_InactiveReturnsZero ==
    (/\ TariffCalled
     /\ \/ obj.contractStatus # "active"
        \/ resp.at < obj.start_date
        \/ resp.at > obj.end_date)
    => resp.rate = 0

\* a call made after the end date of a contract whose status is active,
\* with a date inside the term, that returned 0
C1_Witness ==
    /\ TariffCalled
    /\ obj.contractStatus = "active"
    /\ resp.at > obj.end_date
    /\ resp.date >= obj.start_date /\ resp.date <= obj.end_date
    /\ resp.rate = 0

\* the k-th anniversary of the contract start (start_date + k years)
Anniversary(k) == ReplaceYear(obj.start_date, CivilFromDays(obj.start_date).year + k)[1]

\* C2: for an active fixed-percentage contract the rate at start_date + k
\* years is tariff_rate * (1 + escalation_rate)^k rounded to 4 decimals,
\* and it stays there until the next anniversary (stepwise, annual).
C2_FixedAnniversaryRate ==
    (/\ TariffCalled
     /\ IsActive(obj, resp.at)
     /\ obj.billing_terms.escalation_type = "fixed_percentage")
    => \A k \in 0..2 :
         (/\ Anniversary(k) <= resp.date
          /\ resp.date < Anniversary(k + 1)
          /\ resp.date <= obj.end_date)
         => resp.rate = Round4(Compound(Frac(obj.billing_terms.tariff_rate, 1),
                                        obj.billing_terms.escalation_rate, k))

\* floor(4 * days / 1461): whole elapsed years, rounded down
FloorYears(days) == (4 * days) \div 1461

\* the product the claim describes: tariff_rate times (1 + rate) of the
\* schedule entries i.. whose year is at most limit, in schedule order
RECURSIVE ScheduleProduct(_, _, _, _)
ScheduleProduct(sched, i, limit, x) ==
    IF i > Len(sched) THEN x
    ELSE ScheduleProduct(sched, i + 1, limit,
                         IF sched[i].year <= limit THEN Escalate(x, sched[i].escalation_rate) ELSE x)

\* C3: for an active custom-schedule contract the rate is tariff_rate times
\* (1 + escalation_rate) of exactly the entries whose year is at most
\* floor(elapsed_years) + 1, rounded to 4 decimals; tariff_rate itself when
\* the schedule is absent or empty.
C3_CustomScheduleRate ==
    (/\ TariffCalled
     /\ IsActive(obj, resp.at)
     /\ obj.billing_terms.escalation_type = "custom_schedule")
    => LET bt == obj.billing_terms
       IN  resp.rate =
             IF bt.escalation_schedule = None \/ bt.escalation_schedule[1] = <<>>
             THEN bt.tariff_rate
             ELSE Round4(ScheduleProduct(bt.escalation_schedule[1], 1,
                                         FloorYears(resp.date - obj.start_date) + 1,
                                         Frac(bt.tariff_rate, 1)))

\* C4: custom-schedule escalation is idempotent per year: the history keeps
\* at most one record per schedule year, and a later call with the same
\* date on the same contract returns the same rate.
C4_IdempotentPerYear ==
    /\ [](\A i, j \in 1..Len(obj.escalation_history) :
            obj.escalation_history[i].year = obj.escalation_history[j].year => i = j)
    /\ [][(/\ TariffCalled
           /\ obj.billing_terms.escalation_type = "custom_schedule"
           /\ resp'.op = "calculate_current_tariff"
           /\ resp'.date = resp.date)
          => resp'.rate = resp.rate]_vars

\* the rate the claim describes for calculate_slab_rate: the first slab with
\* consumption >= min and (max unset or consumption < max), else the last
\* slab's rate, else 0
FirstMatchRate(consumption, slabs) ==
    LET hit(i) == /\ consumption >= slabs[i].min_consumption
                  /\ \/ slabs[i].max_consumption = None
                     \/ consumption < slabs[i].max_consumption[1]
    IN  IF \E i \in 1..Len(slabs) : hit(i)
        THEN slabs[CHOOSE i \in 1..Len(slabs) : hit(i) /\ \A j \in 1..(i - 1) : ~hit(j)].rate
        ELSE IF Len(slabs) > 0 THEN slabs[Len(slabs)].rate ELSE 0

\* C5: calculate_slab_rate returns the rate of the first slab, in the order
\* given, with consumption >= min and (max unset or consumption < max); the
\* last slab's rate if none matches; 0 for an empty list.
C5_SlabFirstMatch ==
    resp.op = "calculate_slab_rate"
    => resp.rate = FirstMatchRate(obj.consumption, obj.slabs)

\* =================================================================
\* Properties of the contract lifecycle (Spec, FairSpec, SpecGenerate)
\* =================================================================

\* status active and start_date <= now <= end_date
ActiveNow(p) == p.contractStatus = "active" /\ p.start_date <= now /\ now <= p.end_date

CycleDays(cycle) == IF cycle = "monthly" THEN 30 ELSE IF cycle = "quarterly" THEN 90 ELSE 365

\* an active PPA with a last_billing_date and one of the three cycles
Billed(id) ==
    /\ Exists(id)
    /\ ActiveNow(ppas[id])
    /\ ppas[id].last_billing_date # None
    /\ ppas[id].billing_terms.billing_cycle \in BillingCycles

\* C6: for an active PPA with a last_billing_date, should_generate_invoice
\* is false while fewer than T days have elapsed since then and true once T
\* days have elapsed (T = 30 / 90 / 365); it is false right after a billing
\* is recorded, and as time advances it becomes true again unless the
\* contract stops being active first.
C6_InvoiceDueAfterCycle ==
    /\ [](\A id \in PpaIds :
            Billed(id) =>
              (ShouldGenerateInvoice(ppas[id], now)
                 <=> now - ppas[id].last_billing_date[1]
                       >= CycleDays(ppas[id].billing_terms.billing_cycle)))
    /\ [][(resp'.op = "update_ppa_billing" /\ resp'.result = "ok" /\ ppas' # ppas)
          => ~ShouldGenerateInvoice(ppas'[resp'.id], now')]_vars
    /\ \A id \in PpaIds :
         Billed(id) ~> (~Billed(id) \/ ShouldGenerateInvoice(ppas[id], now))

\* an annual contract, still active exactly 365 days after its last
\* billing, for which an invoice is due again
C6_Witness ==
    \E id \in DOMAIN ppas :
        /\ Billed(id)
        /\ ppas[id].billing_terms.billing_cycle = "annually"
        /\ now - ppas[id].last_billing_date[1] = 365
        /\ ShouldGenerateInvoice(ppas[id], now)

\* C7: should_generate_invoice is false for every PPA that is not active,
\* whatever its billing history, and true for every active PPA without a
\* last_billing_date, whatever its billing cycle.
C7_InactiveNeverActiveUnbilledAlways ==
    \A id \in DOMAIN ppas :
        /\ ~ActiveNow(ppas[id]) => ~ShouldGenerateInvoice(ppas[id], now)
        /\ (ActiveNow(ppas[id]) /\ ppas[id].last_billing_date = None)
             => ShouldGenerateInvoice(ppas[id], now)

\* a contract with status active, past its end date, last billed more than
\* 30 days ago on a monthly cycle: no invoice is due
C7_Witness ==
    \E id \in DOMAIN ppas :
        /\ ppas[id].contractStatus = "active"
        /\ now > ppas[id].end_date
        /\ ppas[id].last_billing_date # None
        /\ ppas[id].billing_terms.billing_cycle = "monthly"
        /\ now - ppas[id].last_billing_date[1] >= 30
        /\ ~ShouldGenerateInvoice(ppas[id], now)

\* a request generate_ppa has no reason to refuse
ValidRequest(req, t) ==
    /\ req.start_date < req.end_date
    /\ req.start_date >= t - 365
    /\ req.start_date <= t + 730
    /\ req.system_specs.capacity_kw > 0
    /\ req.system_specs.panel_type # ""
    /\ req.system_specs.inverter_type # ""
    /\ req.billing_terms.tariff_rate > 0
    /\ req.billing_terms.escalation_rate.num >= 0
    /\ req.billing_terms.billing_cycle \in BillingCycles
    /\ req.billing_terms.payment_terms \in PaymentTerms

\* C8: generate_ppa with valid inputs stores and returns a PPA that is
\* active when start_date <= creation time and draft otherwise, with zero
\* totals, no last_billing_date and no signed_at.
C8_GeneratedPpaInitialState ==
    (resp.op = "generate_ppa" /\ ValidRequest(resp.request, resp.at))
    => /\ resp.result = "ok"
       /\ resp.id \in DOMAIN ppas
       /\ ppas[resp.id].contractStatus =
            (IF resp.request.start_date <= resp.at THEN "active" ELSE "draft")
       /\ ppas[resp.id].total_energy_produced = 0
       /\ ppas[resp.id].total_billed = 0
       /\ ppas[resp.id].total_paid = 0
       /\ ppas[resp.id].last_billing_date = None
       /\ ppas[resp.id].signed_at = None

\* C9: generate_ppa with valid dates and billing terms succeeds, and the
\* PPA it creates carries tenure_years = (end_date - start_date).days / 365.25.
C9_TenureDerivedAtCreation ==
    (resp.op = "generate_ppa" /\ ValidRequest(resp.request, resp.at))
    => /\ resp.result = "ok"
       /\ resp.id \in DOMAIN ppas
       /\ ppas[resp.id].tenure_years =
            Frac(4 * (resp.request.end_date - resp.request.start_date), 1461)

\* C10: signing an existing draft PPA sets contractStatus to active and
\* signed_at to the instant of the call and changes nothing else in the
\* store; signing an id that does not exist returns None and leaves the
\* store as it was.
C10_SignActivatesDraft ==
    [][(resp'.op = "mark_ppa_as_signed" /\ now' = now)
       => IF resp'.id \in DOMAIN ppas
          THEN ppas[resp'.id].contractStatus = "draft"
                 => /\ resp'.result = "ok"
                    /\ ppas' = [ppas EXCEPT ![resp'.id].contractStatus = "active",
                                            ![resp'.id].signed_at = Some(now)]
          ELSE resp'.result = "None" /\ ppas' = ppas]_vars

\* a draft PPA has just been signed: it is active and carries the instant
\* of the call as signed_at
C10_Witness ==
    /\ resp.op = "mark_ppa_as_signed"
    /\ resp.result = "ok"
    /\ resp.before = Some("draft")
    /\ ppas[resp.id].contractStatus = "active"
    /\ ppas[resp.id].signed_at = Some(now)

\* =================================================================
\* SpecLedger: the HTTP handlers that move a PPA's running totals
\* (add_energy_usage, create_invoice, pay_invoice, record_opex_payment)
\* and sign_ppa, called one after the other on one stored PPA.  resp is
\* the HTTP outcome of the last request.
\* =================================================================

MaxLedgerDay == 60

MaxCents == 200

InvoiceIds == {"i1", "i2"}

\* kwh_used of a request: EnergyUsageRequest.kwh_used is an unconstrained float
KwhChoices == {-1, 1}

\* amount of an OPEX payment request (cents)
OpexAmounts == {-100, 0, 100}

\* energy_consumed_kwh of an OPEX payment request
OpexEnergies == {0, 5}

\* the stored PPAs of the ledger runs: one contract of about a year from
\* Day0 at 1.00 currency/kWh, in each status and each business model
LedgerDocs ==
    {[PPADoc("c1", Day0, Day0 + 370, st,
             BillingTerms(100000, "fixed_percentage", Frac(1, 10), None, "monthly", bm))
        EXCEPT !.business_model = bm] @@ [opex_payment_history |-> <<>>, updated_at |-> None] :
        st \in ContractStatus, bm \in {"capex", "opex"}}

InitLedger ==
    /\ now = Day0 + 30
    /\ \E d \in LedgerDocs : ppas = [id \in {"p1"} |-> d]
    /\ invoices = <<>>
    /\ db = EmptyDb
    /\ resp = NoResp
    /\ obj = None

TickLedger ==
    /\ now + 30 <= Day0 + MaxLedgerDay
    /\ now' = now + 30
    /\ UNCHANGED <<ppas, resp, obj, invoices, db>>

\* an HTTP outcome
Http(op, id, status, detail) == [op |-> op, id |-> id, status |-> status, detail |-> detail]

\* round(kwh_used * tariff_rate, 2) in cents, the rate in 1e-5 units
CalculateInvoiceAmount(kwh, rate) == RoundHalfEven(kwh * rate, 1000)

\* add_energy_usage calling update_ppa_energy_production before it looks
\* at is_active()
AddEnergyUsage_UpdateFirst(id, kwh) ==
    /\ IF ~Exists(id)
       THEN /\ resp' = Http("add_energy_usage", id, 404, "PPA not found")
            /\ ppas' = ppas /\ db' = db
       ELSE /\ ppas[id].total_energy_produced + kwh \in 0..MaxTotal
            /\ Len(db.energy_usage) < MaxTotal
            /\ ppas' = [ppas EXCEPT ![id].total_energy_produced = @ + kwh]
            /\ IF ~IsActive(ppas[id], now)
               THEN /\ resp' = Http("add_energy_usage", id, 400, "PPA is not active")
                    /\ db' = db
               ELSE /\ db' = [db EXCEPT !.energy_usage =
                                Append(@, [ppa_id |-> id, kwh_used |-> kwh])]
                    /\ resp' = Http("add_energy_usage", id, 200,
                                    [ppa_id |-> id, kwh_used |-> kwh])
    /\ UNCHANGED <<now, obj, invoices>>

\* POST /ppas/{ppa_id}/energy-usage: update_ppa_energy_production, then the
\* usage record is saved in energy_usage
AddEnergyUsage(id, kwh) ==
    /\ IF ~Exists(id)
       THEN /\ resp' = Http("add_energy_usage", id, 404, "PPA not found")
            /\ ppas' = ppas /\ db' = db
       ELSE IF ~IsActive(ppas[id], now)
       THEN /\ resp' = Http("add_energy_usage", id, 400, "PPA is not active")
            /\ ppas' = ppas /\ db' = db
       ELSE /\ ppas[id].total_energy_produced + kwh \in 0..MaxTotal
            /\ Len(db.energy_usage) < MaxTotal
            /\ ppas' = [ppas EXCEPT ![id].total_energy_produced = @ + kwh]
            /\ db' = [db EXCEPT !.energy_usage =
                        Append(@, [ppa_id |-> id, kwh_used |-> kwh])]
            /\ resp' = Http("add_energy_usage", id, 200, [ppa_id |-> id, kwh_used |-> kwh])
    /\ UNCHANGED <<now, obj, invoices>>

\* POST /ppas/{ppa_id}/invoices/generate: generate_invoice stores the
\* invoice, update_ppa_billing moves the PPA's billing fields
CreateInvoice(id, kwh) ==
    /\ IF ~Exists(id)
       THEN /\ resp' = Http("create_invoice", id, 404, "PPA not found")
            /\ UNCHANGED <<ppas, invoices>>
       ELSE IF ~IsActive(ppas[id], now)
       THEN /\ resp' = Http("create_invoice", id, 400, "PPA is not active")
            /\ UNCHANGED <<ppas, invoices>>
       ELSE IF ~ShouldGenerateInvoice(ppas[id], now)
       THEN /\ resp' = Http("create_invoice", id, 400, "No invoice needed at this time")
            /\ UNCHANGED <<ppas, invoices>>
       ELSE LET ppa == ppas[id]
                tariff == CalculateCurrentTariff(ppa, now, now).rate
                amount == CalculateInvoiceAmount(kwh, tariff)
                base == IF ppa.last_billing_date # None THEN ppa.last_billing_date[1]
                        ELSE ppa.start_date
                cycle == ppa.billing_terms.billing_cycle
                next == IF cycle = "monthly" THEN Some(FirstOfMonth(base + 32))
                        ELSE IF cycle = "quarterly" THEN Some(FirstOfMonth(base + 92))
                        ELSE ppa.next_billing_date
            IN  \E inv \in InvoiceIds \ DOMAIN invoices :
                  /\ ppa.total_billed + amount \in 0..MaxCents
                  /\ invoices' = [i \in DOMAIN invoices \cup {inv} |->
                                    IF i = inv
                                    THEN [customer_id |-> ppa.customer_id, kwh_used |-> kwh,
                                          tariff_rate |-> tariff, total_amount |-> amount,
                                          status |-> "pending", paid_at |-> None]
                                    ELSE invoices[i]]
                  /\ ppas' = [ppas EXCEPT ![id].total_billed = @ + amount,
                                          ![id].last_billing_date = Some(now),
                                          ![id].next_billing_date = next]
                  /\ resp' = Http("create_invoice", id, 200, inv)
    /\ UNCHANGED <<now, obj, db>>

\* POST /ppas/{ppa_id}/invoices/{invoice_id}/pay: mark_invoice_as_paid,
\* then update_ppa_payment with the invoice's total_amount
PayInvoice(id, inv) ==
    /\ IF ~Exists(id)
       THEN /\ resp' = Http("pay_invoice", id, 404, "PPA not found")
            /\ UNCHANGED <<ppas, invoices>>
       ELSE IF inv \notin DOMAIN invoices
       THEN /\ resp' = Http("pay_invoice", id, 404, "Invoice not found")
            /\ UNCHANGED <<ppas, invoices>>
       ELSE /\ ppas[id].total_paid + invoices[inv].total_amount \in 0..MaxCents
            /\ invoices' = [invoices EXCEPT ![inv].status = "paid", ![inv].paid_at = Some(now)]
            /\ ppas' = [ppas EXCEPT ![id].total_paid = @ + invoices[inv].total_amount]
            /\ resp' = Http("pay_invoice", id, 200, inv)
    /\ UNCHANGED <<now, obj, db>>

\* POST /ppas/{ppa_id}/opex-payment
RecordOpexPayment(id, amount, energy) ==
    /\ IF ~Exists(id)
       THEN /\ resp' = Http("record_opex_payment", id, 404, "PPA not found")
            /\ ppas' = ppas
       ELSE IF ppas[id].business_model # "opex"
       THEN /\ resp' = Http("record_opex_payment", id, 400, "This PPA is not an OPEX model")
            /\ ppas' = ppas
       ELSE IF ~IsActive(ppas[id], now)
       THEN /\ resp' = Http("record_opex_payment", id, 400, "PPA is not active")
            /\ ppas' = ppas
       ELSE IF amount = 0 \/ amount <= 0
       THEN /\ resp' = Http("record_opex_payment", id, 400, "Payment amount must be greater than 0")
            /\ ppas' = ppas
       ELSE IF energy = 0 \/ energy < 0
       THEN /\ resp' = Http("record_opex_payment", id, 400, "Energy consumed must be non-negative")
            /\ ppas' = ppas
       ELSE /\ ppas[id].total_paid + amount <= MaxCents
            /\ Len(ppas[id].opex_payment_history) < MaxTotal
            /\ ppas' = [ppas EXCEPT ![id].total_paid = @ + amount,
                                    ![id].opex_payment_history =
                                        Append(@, [amount |-> amount, date |-> now,
                                                   energy_consumed |-> energy]),
                                    ![id].updated_at = Some(now)]
            /\ resp' = Http("record_opex_payment", id, 200, amount)
    /\ UNCHANGED <<now, obj, invoices, db>>

NextLedger ==
    \/ TickLedger
    \/ \E id \in PpaIds : MarkPpaAsSigned(id)
    \/ \E id \in PpaIds, kwh \in KwhChoices : AddEnergyUsage(id, kwh)
    \/ \E id \in PpaIds, kwh \in KwhChoices : CreateInvoice(id, kwh)
    \/ \E id \in PpaIds, inv \in InvoiceIds : PayInvoice(id, inv)
    \/ \E id \in PpaIds, a \in OpexAmounts, e \in OpexEnergies : RecordOpexPayment(id, a, e)

SpecLedger == InitLedger /\ [][NextLedger]_vars

\* =================================================================
\* SpecDynamic: get_dynamic_tariff(request) against the collections
\* discoms and tariffs and a DISCOM API whose behaviour is an input of
\* each call.  The collections tariff_slabs and tou_tariffs hold no
\* document in these runs.  resp records the request, the behaviour of
\* the sources during the call, the tiers the call went through and the
\* response it returned.
\* =================================================================

MaxTariffs == 2

CustomerTypes == {"residential", "industrial"}

\* contract_date of a request and the effective dates of stored tariffs
ContractDates == {5, 15, 25}

EffectiveFroms == {10, 20}

EffectiveUntils == {None, Some(15)}

\* what call_discom_api meets: no connection, a non-200 status, a body
\* that parse_discom_api_response rejects, or a tariff
ApiOutcomes == {"unreachable", "status_500", "unparsable", "ok"}

\* the DISCOM documents a store may hold under the id "d1"
DiscomDocs ==
    {[is_active |-> a, api_endpoint |-> e, api_key |-> k] :
        a \in BOOLEAN, e \in {Some("https://d1")}, k \in {None, Some("key")}}

DiscomStores == {<<>>} \cup {[id \in {"d1"} |-> d] : d \in DiscomDocs}

TariffIds == <<"t1", "t2", "t3", "t4">>

\* a tariff document as create_tariff_structure stores it; is_active is
\* written as True there and may have been switched off since
TariffShapes ==
    [customer_type : CustomerTypes, is_active : {TRUE},
     effective_from : EffectiveFroms, effective_until : EffectiveUntils]
    \cup
    [customer_type : {"residential"}, is_active : {FALSE},
     effective_from : {10}, effective_until : {None}]

TariffDocOf(shape, i) ==
    [tariff_id |-> TariffIds[i], discom_id |-> Some("d1"), state_code |-> "DL",
     tariff_category |-> "residential_low", customer_type |-> shape.customer_type,
     base_rate |-> 500000 + 10000 * i, effective_from |-> shape.effective_from,
     effective_until |-> shape.effective_until, source |-> "regulatory_order",
     is_active |-> Some(shape.is_active)]

TariffStores ==
    {[i \in 1..Len(q) |-> TariffDocOf(q[i], i)] : q \in SeqsUpTo(TariffShapes, MaxTariffs)}

DynamicTariffRequests ==
    [discom_id : {"d1"}, state_code : {"DL"}, tariff_category : {"residential_low"},
     customer_type : CustomerTypes, contract_date : ContractDates]

\* failures of the store during one call: reads of discoms, reads of tariffs
StoreFailures == [discoms : BOOLEAN, tariffs : BOOLEAN]

\* a DynamicTariffResponse, by the fields that tell the tiers apart
TariffResponse(id, rate, from, source) ==
    [tariff_id |-> id, base_rate |-> rate, effective_from |-> from, source |-> source]

\* is_discom_api_available(discom_id): False when the read raises
IsDiscomApiAvailable(discoms, id, readFails) ==
    IF readFails THEN FALSE
    ELSE IF id \notin DOMAIN discoms THEN FALSE
    ELSE /\ discoms[id].is_active
         /\ discoms[id].api_endpoint # None
         /\ discoms[id].api_key # None

\* call_discom_api: the parsed tariff for a 200 with a well-formed body,
\* None for every other outcome
CallDiscomApi(request, api, t) ==
    IF api = "ok"
    THEN Some(TariffResponse("discom_api1", 700000, t, "discom_api"))
    ELSE None

\* fetch_tariff_from_discom_api(request): None when the read raises, the
\* DISCOM is missing or has no endpoint or key, or the API gives nothing
FetchTariffFromDiscomApi(discoms, request, api, readFails, t) ==
    IF readFails THEN None
    ELSE IF request.discom_id \notin DOMAIN discoms THEN None
    ELSE IF discoms[request.discom_id].api_endpoint = None
            \/ discoms[request.discom_id].api_key = None THEN None
    ELSE CallDiscomApi(request, api, t)

\* store_tariff_in_database(tariff_data): set() under the tariff's id of
\* the response's own fields and created_at
StoreTariffInDatabase(tariffs, tariff, t) ==
    LET doc == [tariff_id |-> tariff.tariff_id, discom_id |-> None, state_code |-> "DL",
                tariff_category |-> "residential_low", customer_type |-> "residential",
                base_rate |-> tariff.base_rate, effective_from |-> tariff.effective_from,
                effective_until |-> None, source |-> tariff.source, is_active |-> None]
    IN  IF \E i \in 1..Len(tariffs) : tariffs[i].tariff_id = tariff.tariff_id
        THEN [i \in 1..Len(tariffs) |->
                IF tariffs[i].tariff_id = tariff.tariff_id THEN doc ELSE tariffs[i]]
        ELSE Append(tariffs, doc)

\* the where(...) clauses of get_tariff_from_database
MatchesQuery(doc, request) ==
    /\ doc.discom_id = Some(request.discom_id)
    /\ doc.state_code = request.state_code
    /\ doc.tariff_category = request.tariff_category
    /\ doc.customer_type = request.customer_type
    /\ doc.is_active = Some(TRUE)

\* the loop of get_tariff_from_database over docs i.. that keeps the first
\* eligible document with the strictly latest effective_from
RECURSIVE BestTariff_FirstEligible(_, _, _, _)
BestTariff_FirstEligible(docs, i, date, best) ==
    IF i > Len(docs) THEN best
    ELSE IF /\ docs[i].effective_from <= date
            /\ (docs[i].effective_until = None \/ docs[i].effective_until[1] >= date)
            /\ best = None
         THEN BestTariff_FirstEligible(docs, i + 1, date, Some(docs[i]))
         ELSE BestTariff_FirstEligible(docs, i + 1, date, best)

RECURSIVE BestTariff(_, _, _, _)
BestTariff(docs, i, date, best) ==
    IF i > Len(docs) THEN best
    ELSE IF /\ docs[i].effective_from <= date
            /\ (docs[i].effective_until = None \/ docs[i].effective_until[1] >= date)
            /\ (best = None \/ docs[i].effective_from > best[1].effective_from)
         THEN BestTariff(docs, i + 1, date, Some(docs[i]))
         ELSE BestTariff(docs, i + 1, date, best)

\* get_tariff_from_database(request): None when the query raises, matches
\* nothing or no match is eligible
GetTariffFromDatabase(tariffs, request, readFails) ==
    IF readFails THEN None
    ELSE LET docs == SelectSeq(tariffs, LAMBDA d : MatchesQuery(d, request))
             best == BestTariff(docs, 1, request.contract_date, None)
         IN  IF docs = <<>> \/ best = None THEN None
             ELSE Some(TariffResponse(best[1].tariff_id, best[1].base_rate,
                                      best[1].effective_from, best[1].source))

\* calculate_tariff_based_on_rules(request)
CalculateTariffBasedOnRules(request, t) ==
    LET base_rates == [residential |-> 800000, commercial |-> 1000000, industrial |-> 1400000,
                       government |-> 900000, other |-> 1000000]
    IN  TariffResponse("calculated", base_rates[request.customer_type], t, "calculated")

\* get_fallback_tariff(request)
GetFallbackTariff(request, t) == TariffResponse("fallback", 1000000, t, "manual_override")

\* get_dynamic_tariff that lets a failure of a source reach the caller
DynamicTariffOutcome_Fatal(d, request, api, fails, raises, t) ==
    IF fails.discoms \/ fails.tariffs
          \/ (IsDiscomApiAvailable(d.discoms, request.discom_id, FALSE) /\ api # "ok")
    THEN [tiers |-> <<>>, tariff |-> None, tariffs |-> d.tariffs]
    ELSE LET fromDb == GetTariffFromDatabase(d.tariffs, request, FALSE)
         IN  IF IsDiscomApiAvailable(d.discoms, request.discom_id, FALSE)
             THEN [tiers |-> <<"discom_api">>,
                   tariff |-> CallDiscomApi(request, api, t), tariffs |-> d.tariffs]
             ELSE IF fromDb # None
             THEN [tiers |-> <<"database">>, tariff |-> fromDb, tariffs |-> d.tariffs]
             ELSE [tiers |-> <<"database", "rules">>,
                   tariff |-> Some(CalculateTariffBasedOnRules(request, t)),
                   tariffs |-> d.tariffs]

\* get_dynamic_tariff that looks in the stored tariffs before the API
DynamicTariffOutcome_DatabaseFirst(d, request, api, fails, raises, t) ==
    LET available == IsDiscomApiAvailable(d.discoms, request.discom_id, fails.discoms)
        fromDb == GetTariffFromDatabase(d.tariffs, request, fails.tariffs)
        fromApi == IF available
                   THEN FetchTariffFromDiscomApi(d.discoms, request, api, fails.discoms, t)
                   ELSE None
    IN  IF fromDb # None
        THEN [tiers |-> <<"database">>, tariff |-> fromDb, tariffs |-> d.tariffs]
        ELSE IF fromApi # None
        THEN [tiers |-> <<"database", "discom_api">>, tariff |-> fromApi,
              tariffs |-> StoreTariffInDatabase(d.tariffs, fromApi[1], t)]
        ELSE [tiers |-> <<"database", "rules">>,
              tariff |-> Some(CalculateTariffBasedOnRules(request, t)), tariffs |-> d.tariffs]

\* get_dynamic_tariff(request) at instant t on the collections d: the tiers
\* it goes through, the response it returns and the tariffs collection it
\* leaves.  raises: the rules tier, once reached, raises (the three tiers
\* before it catch their own exceptions), so the except clause runs.
DynamicTariffOutcome(d, request, api, fails, raises, t) ==
    LET available == IsDiscomApiAvailable(d.discoms, request.discom_id, fails.discoms)
        fromApi == IF available
                   THEN FetchTariffFromDiscomApi(d.discoms, request, api, fails.discoms, t)
                   ELSE None
        fromDb == GetTariffFromDatabase(d.tariffs, request, fails.tariffs)
        first == IF available THEN <<"discom_api">> ELSE <<>>
    IN  IF fromApi # None
        THEN [tiers |-> first, tariff |-> fromApi,
              tariffs |-> StoreTariffInDatabase(d.tariffs, fromApi[1], t)]
        ELSE IF fromDb # None
        THEN [tiers |-> first \o <<"database">>, tariff |-> fromDb, tariffs |-> d.tariffs]
        ELSE IF ~raises
        THEN [tiers |-> first \o <<"database", "rules">>,
              tariff |-> Some(CalculateTariffBasedOnRules(request, t)), tariffs |-> d.tariffs]
        ELSE [tiers |-> first \o <<"database", "rules", "fallback">>,
              tariff |-> Some(GetFallbackTariff(request, t)), tariffs |-> d.tariffs]

\* one call of get_dynamic_tariff on the collections drawn initially
GetDynamicTariff(request, api, fails, raises) ==
    LET out == DynamicTariffOutcome(db, request, api, fails, raises, now)
    IN  /\ resp = NoResp
        /\ resp' = [op |-> "get_dynamic_tariff", request |-> request, api |-> api,
                    fails |-> fails, raises |-> raises,
                    tiers |-> out.tiers, tariff |-> out.tariff]
        /\ db' = [db EXCEPT !.tariffs = out.tariffs]
        /\ UNCHANGED <<now, ppas, obj, invoices>>

InitDynamic ==
    /\ now = 30
    /\ ppas = <<>>
    /\ invoices = <<>>
    /\ obj = None
    /\ resp = NoResp
    /\ db \in [discoms : DiscomStores, tariffs : TariffStores]

NextDynamic ==
    \E request \in DynamicTariffRequests, api \in ApiOutcomes,
       fails \in StoreFailures, raises \in BOOLEAN :
        GetDynamicTariff(request, api, fails, raises)

SpecDynamic == InitDynamic /\ [][NextDynamic]_vars

\* =================================================================
\* SpecCreate: the handlers create_ppa and sign_ppa on a store that
\* already holds one or two PPAs.  resp is the HTTP outcome of the last
\* request, with the request body of a create.
\* =================================================================

\* documents of the collection customers
Customers == {"c1", "c2"}

\* BillingTerms with the fields the validators of the class look at
FullTerms(bt, penalty, capex, fee, rate) ==
    bt @@ [latePaymentPenaltyRate |-> penalty, capex_amount |-> capex,
           opex_monthly_fee |-> fee, opex_energy_rate |-> rate]

\* valid CAPEX terms at 8.00 currency/kWh with the given schedule
CapexTerms(etype, sched) ==
    FullTerms(BillingTerms(800000, etype, Frac(1, 10), sched, "monthly", "capex"),
              Some(5), Some(100000), None, None)

\* billing terms of the create requests: valid ones and ones with one fault each
CreateTerms ==
    [fault : {"none"}, terms : {CapexTerms("fixed_percentage", None),
                                CapexTerms("custom_schedule",
                                           Some(<<ScheduleEntry(1, Frac(1, 10)),
                                                  ScheduleEntry(2, Frac(1, 10))>>)),
                                FullTerms(BillingTerms(800000, "fixed_percentage", Frac(1, 10),
                                                       None, "monthly", "opex"),
                                          Some(10), None, Some(500), Some(5))}]
    \cup [fault : {"tariff_rate"},
          terms : {[CapexTerms("fixed_percentage", None) EXCEPT !.tariff_rate = v] : v \in {0, -100000}}]
    \cup [fault : {"escalation_rate"},
          terms : {[CapexTerms("fixed_percentage", None) EXCEPT !.escalation_rate = Frac(-1, 10)]}]
    \cup [fault : {"billing_cycle"},
          terms : {[CapexTerms("fixed_percentage", None) EXCEPT !.billing_cycle = "weekly"]}]
    \cup [fault : {"payment_terms"},
          terms : {[CapexTerms("fixed_percentage", None) EXCEPT !.payment_terms = "net90"]}]
    \cup [fault : {"latePaymentPenaltyRate"},
          terms : {[CapexTerms("fixed_percentage", None) EXCEPT !.latePaymentPenaltyRate = Some(11)]}]
    \cup [fault : {"schedule_years_unique"},
          terms : {CapexTerms("custom_schedule",
                              Some(<<ScheduleEntry(1, Frac(1, 10)), ScheduleEntry(1, Frac(1, 4))>>))}]
    \cup [fault : {"schedule_years_start"},
          terms : {CapexTerms("custom_schedule", Some(<<ScheduleEntry(y, Frac(1, 10)),
                                                        ScheduleEntry(y + 1, Frac(1, 10))>>)) :
                      y \in {0, 2}}]
    \cup [fault : {"business_model_amount"},
          terms : {[CapexTerms("fixed_percentage", None) EXCEPT !.capex_amount = v] :
                      v \in {None, Some(0)}}
                  \cup {FullTerms(BillingTerms(800000, "fixed_percentage", Frac(1, 10),
                                               None, "monthly", "opex"),
                                  Some(5), None, None, Some(5))}]

\* the validators of BillingTerms (and of BillingTermsRequest, which has
\* the same three): the messages of those that raise, in field order
ValidateBillingTerms(bt) ==
    LET sched == bt.escalation_schedule
        years == IF sched = None THEN {} ELSE {sched[1][i].year : i \in 1..Len(sched[1])}
        schedule ==
            IF sched = None THEN <<>>
            ELSE IF Len(sched[1]) = 0 THEN <<"min() arg is an empty sequence">>
            ELSE IF Len(sched[1]) # Cardinality(years)
                 THEN <<"Escalation schedule years must be unique">>
            ELSE IF \E y \in years : y < 1
                 THEN <<"Escalation schedule years must start from 1">>
            ELSE <<>>
        penalty ==
            IF bt.latePaymentPenaltyRate # None /\ bt.latePaymentPenaltyRate[1] > 10
            THEN <<"latePaymentPenaltyRate cannot exceed 10%">> ELSE <<>>
        model ==
            IF bt.business_model = "capex"
            THEN IF bt.capex_amount = None \/ bt.capex_amount[1] <= 0
                 THEN <<"CAPEX amount must be specified and greater than 0 for CAPEX model">>
                 ELSE <<>>
            ELSE IF bt.business_model = "opex"
            THEN IF bt.opex_monthly_fee = None \/ bt.opex_monthly_fee[1] <= 0
                 THEN <<"OPEX monthly fee must be specified and greater than 0 for OPEX model">>
                 ELSE IF bt.opex_energy_rate = None \/ bt.opex_energy_rate[1] <= 0
                 THEN <<"OPEX energy rate must be specified and greater than 0 for OPEX model">>
                 ELSE <<>>
            ELSE <<>>
    IN  schedule \o penalty \o model

\* check_overlapping_ppa(customer_id, start_date, end_date, db)
CheckOverlappingPpa(customer, start, end) ==
    \E id \in DOMAIN ppas :
        /\ ppas[id].customer_id = customer
        /\ ppas[id].contractStatus \in {"active", "draft"}
        /\ ~(end <= ppas[id].start_date \/ start >= ppas[id].end_date)

\* POST /ppas: the request body is validated, then the handler runs
CreatePpa(fault, customer, specs, bt, start, end) ==
    LET request == [fault |-> fault, customer_id |-> customer, billing_terms |-> bt,
                    start_date |-> start, end_date |-> end]
        reply(status, code, detail) ==
            [op |-> "create_ppa", request |-> request, status |-> status,
             errorCode |-> code, detail |-> detail]
        out == GeneratePpaOutcome(customer, specs, bt, start, end, now)
    IN  /\ IF ValidateBillingTerms(bt) # <<>>
           THEN /\ resp' = reply(422, "VALIDATION_ERROR", ValidateBillingTerms(bt)[1])
                /\ ppas' = ppas
           ELSE IF CheckOverlappingPpa(customer, start, end)
           THEN /\ resp' = reply(422, "PPA_OVERLAP",
                                 "Overlapping active/draft PPA exists for this customer/site.")
                /\ ppas' = ppas
           ELSE IF customer \notin Customers
           THEN /\ resp' = reply(404, "NOT_FOUND", "Customer not found")
                /\ ppas' = ppas
           ELSE IF out.result = "error"
           THEN /\ resp' = reply(422, "VALIDATION_ERROR", out.detail)
                /\ ppas' = ppas
           ELSE \E id \in PpaIds \ DOMAIN ppas :
                  /\ resp' = reply(200, "", id)
                  /\ ppas' = [i \in DOMAIN ppas \cup {id} |->
                                IF i = id THEN out.ppa ELSE ppas[i]]
        /\ UNCHANGED <<now, obj, invoices, db>>

\* a stored PPA of about a year at 8.00 currency/kWh
StoredPpa(customer, start, status) ==
    PPADoc(customer, start, start + 370, status, CapexTerms("fixed_percentage", None))

\* no two active/draft PPAs of one customer overlap in the set of documents S
NoOverlapIn(S) ==
    \A a, b \in S :
        (/\ a # b
         /\ a.customer_id = b.customer_id
         /\ a.contractStatus \in {"active", "draft"}
         /\ b.contractStatus \in {"active", "draft"})
        => (a.end_date <= b.start_date \/ b.end_date <= a.start_date)

\* the stores the runs start from: one PPA of customer c1 from Day0, alone
\* or with a second PPA that overlaps it or follows it, the pair being one
\* that check_overlapping_ppa lets through
InitCreate ==
    /\ now = Day0
    /\ \E st1 \in ContractStatus :
          \/ ppas = [id \in {"p1"} |-> StoredPpa("c1", Day0, st1)]
          \/ \E c \in Customers, s2 \in {Day0 + 100, Day0 + 370}, st2 \in ContractStatus :
                /\ NoOverlapIn({StoredPpa("c1", Day0, st1), StoredPpa(c, s2, st2)})
                /\ ppas = [id \in {"p1", "p2"} |->
                             IF id = "p1" THEN StoredPpa("c1", Day0, st1)
                             ELSE StoredPpa(c, s2, st2)]
    /\ invoices = <<>>
    /\ db = EmptyDb
    /\ resp = NoResp
    /\ obj = None

NextCreate ==
    \/ \E id \in PpaIds : MarkPpaAsSigned(id)
    \/ \E ct \in CreateTerms, customer \in {"c1", "c9"},
          start \in {Day0, Day0 + 370}, len \in {0, 365} :
          /\ len = 0 => ct.fault = "none"
          /\ CreatePpa(IF len = 0 THEN "dates" ELSE ct.fault,
                       customer, [capacity_kw |-> 10, panel_type |-> "mono",
                                  inverter_type |-> "string"],
                       ct.terms, start, start + len)

SpecCreate == InitCreate /\ [][NextCreate]_vars

\* =================================================================
\* SpecRace: two calls of update_ppa_energy_production, update_ppa_billing
\* or update_ppa_payment for the PPA "p1" in flight at once.  Each call
\* awaits the read of the document and later the write, so the steps of
\* the two calls interleave.  obj holds, for each call, the function it
\* runs, its amount, its position and the PPA object it built from the
\* document it read.
\* =================================================================

Handlers == {"h1", "h2"}

UpdateOps == {"update_ppa_energy_production", "update_ppa_billing", "update_ppa_payment"}

UpdateAmounts == {1, 2}

\* the running total each function adds to
TotalField(op) ==
    IF op = "update_ppa_energy_production" THEN "total_energy_produced"
    ELSE IF op = "update_ppa_billing" THEN "total_billed"
    ELSE "total_paid"

InitRace ==
    /\ now = Day0 + 30
    /\ \/ ppas = <<>>
       \/ \E cy \in BillingCycles :
            ppas = [id \in {"p1"} |->
                      PPADoc("c1", Day0, Day0 + 370, "active",
                             BillingTerms(800000, "fixed_percentage", Frac(1, 10), None, cy, "capex"))]
    /\ obj \in [Handlers -> [op : UpdateOps, amount : UpdateAmounts, pc : {"start"}, ppa : {None}]]
    /\ invoices = <<>>
    /\ db = EmptyDb
    /\ resp = NoResp

\* ppa_doc = ppa_ref.get(); return None if the document does not exist;
\* ppa = PPA(**ppa_doc.to_dict())
RaceFetch(h) ==
    /\ obj[h].pc = "start"
    /\ IF ~Exists("p1")
       THEN /\ obj' = [obj EXCEPT ![h].pc = "done"]
            /\ resp' = [op |-> obj[h].op, handler |-> h, result |-> "None"]
       ELSE /\ obj' = [obj EXCEPT ![h].pc = "fetched", ![h].ppa = Some(ppas["p1"])]
            /\ resp' = resp
    /\ UNCHANGED <<now, ppas, invoices, db>>

\* the write as an increment of the stored value in place
RaceWrite_Atomic(h) ==
    /\ obj[h].pc = "fetched"
    /\ ppas' = [ppas EXCEPT !["p1"][TotalField(obj[h].op)] = @ + obj[h].amount]
    /\ obj' = [obj EXCEPT ![h].pc = "done"]
    /\ resp' = [op |-> obj[h].op, handler |-> h, result |-> "ok"]
    /\ UNCHANGED <<now, invoices, db>>

\* ppa.total += amount on the object read earlier; ppa_ref.update(update_data)
RaceWrite(h) ==
    /\ obj[h].pc = "fetched"
    /\ LET ppa == obj[h].ppa[1]
           total == ppa[TotalField(obj[h].op)] + obj[h].amount
           base == IF ppa.last_billing_date # None THEN ppa.last_billing_date[1]
                   ELSE ppa.start_date
           cycle == ppa.billing_terms.billing_cycle
       IN  ppas' =
             IF obj[h].op = "update_ppa_billing"
             THEN [ppas EXCEPT !["p1"].total_billed = total,
                               !["p1"].last_billing_date = Some(now),
                               !["p1"].next_billing_date =
                                   IF cycle = "monthly" THEN Some(FirstOfMonth(base + 32))
                                   ELSE IF cycle = "quarterly" THEN Some(FirstOfMonth(base + 92))
                                   ELSE @]
             ELSE [ppas EXCEPT !["p1"][TotalField(obj[h].op)] = total]
    /\ obj' = [obj EXCEPT ![h].pc = "done"]
    /\ resp' = [op |-> obj[h].op, handler |-> h, result |-> "ok"]
    /\ UNCHANGED <<now, invoices, db>>

NextRace ==
    \/ \E h \in Handlers : RaceFetch(h)
    \/ \E h \in Handlers : RaceWrite(h)

SpecRace == InitRace /\ [][NextRace]_vars

\* =================================================================
\* Authentication of the protected endpoints (firebase_config.py, main.py)
\* =================================================================

\* what a caller can send as bearer credentials, by what
\* auth.verify_id_token makes of it
Tokens == {"valid", "malformed", "expired", "revoked", "cert_fetch_error"}

\* auth.verify_id_token(token): the decoded claims, or the exception class
\* raised (a failure that is none of the three token errors is a plain
\* Exception for the handler below)
VerifyIdToken(token) ==
    CASE token = "valid" -> [raised |-> None, value |-> Some([uid |-> "u1"])]
      [] token = "expired" -> [raised |-> Some("ExpiredIdTokenError"), value |-> None]
      [] token = "revoked" -> [raised |-> Some("RevokedIdTokenError"), value |-> None]
      [] token = "malformed" -> [raised |-> Some("InvalidIdTokenError"), value |-> None]
      [] OTHER -> [raised |-> Some("Exception"), value |-> None]

\* verify_token without its last except clause
VerifyToken_NoCatchAll(token) ==
    LET r == VerifyIdToken(token)
    IN  IF r.raised = None THEN r
        ELSE IF r.raised[1] \in {"ExpiredIdTokenError", "RevokedIdTokenError",
                                 "InvalidIdTokenError"}
        THEN [raised |-> None, value |-> None]
        ELSE r

\* verify_token(token): what it returns (value) and what escapes it (raised)
VerifyToken(token) ==
    LET r == VerifyIdToken(token)
    IN  IF r.raised = None THEN r
        ELSE IF r.raised[1] = "ExpiredIdTokenError" THEN [raised |-> None, value |-> None]
        ELSE IF r.raised[1] = "RevokedIdTokenError" THEN [raised |-> None, value |-> None]
        ELSE IF r.raised[1] = "InvalidIdTokenError" THEN [raised |-> None, value |-> None]
        ELSE [raised |-> None, value |-> None]

\* get_current_user(credentials): the status it raises and the user it returns
GetCurrentUser(available, token) ==
    IF ~available
    THEN [status |-> 503, detail |-> "Authentication service unavailable", user |-> None]
    ELSE LET user == VerifyToken(token)
         IN  IF user.raised # None
             THEN [status |-> 500, detail |-> "Internal Server Error", user |-> None]
             ELSE IF user.value = None
             THEN [status |-> 401, detail |-> "Invalid token", user |-> None]
             ELSE [status |-> 200, detail |-> "", user |-> user.value]

\* the response of a protected endpoint, with the number of document reads
\* and writes its handler made on the store
AuthHttp(op, id, token, status, detail, reads, writes) ==
    [op |-> op, id |-> id, token |-> token, status |-> status, detail |-> detail,
     reads |-> reads, writes |-> writes]

\* GET /ppas/{ppa_id} with its dependency get_current_user
GetPpa(token, id) ==
    LET dep == GetCurrentUser(obj.firebase_available, token)
    IN  /\ IF dep.status # 200
           THEN resp' = AuthHttp("get_ppa", id, token, dep.status, dep.detail, 0, 0)
           ELSE IF ~Exists(id)
           THEN resp' = AuthHttp("get_ppa", id, token, 404, "PPA not found", 1, 0)
           ELSE resp' = AuthHttp("get_ppa", id, token, 200, "", 1, 0)
        /\ UNCHANGED <<now, ppas, obj, invoices, db>>

\* POST /ppas/{ppa_id}/sign with its dependency get_current_user
SignPpa(token, id) ==
    LET dep == GetCurrentUser(obj.firebase_available, token)
    IN  /\ IF dep.status # 200
           THEN /\ resp' = AuthHttp("sign_ppa", id, token, dep.status, dep.detail, 0, 0)
                /\ ppas' = ppas
           ELSE IF ~Exists(id)
           THEN /\ resp' = AuthHttp("sign_ppa", id, token, 404, "PPA not found", 1, 0)
                /\ ppas' = ppas
           ELSE /\ ppas' = [ppas EXCEPT ![id].contractStatus = "active",
                                        ![id].signed_at = Some(now)]
                /\ resp' = AuthHttp("sign_ppa", id, token, 200, "", 1, 1)
        /\ UNCHANGED <<now, obj, invoices, db>>

\* the Firebase import at start-up succeeded or failed; one stored PPA
InitAuth ==
    /\ now = Day0 + 30
    /\ InitStore
    /\ resp = NoResp
    /\ obj \in [firebase_available : BOOLEAN]
    /\ invoices = <<>>
    /\ db = EmptyDb

NextAuth ==
    \/ \E token \in Tokens, id \in PpaIds : GetPpa(token, id)
    \/ \E token \in Tokens, id \in PpaIds : SignPpa(token, id)

SpecAuth == InitAuth /\ [][NextAuth]_vars

\* =================================================================
\* Invoices of several PPAs (main.py, invoice_generator.py)
\* =================================================================

\* GET /ppas/{ppa_id}/invoices: the ids of the documents of the query
\* invoices.where('ppa_id', '==', ppa_id), which matches the documents
\* that have a field ppa_id with that value
ListPpaInvoices(id) ==
    /\ IF ~Exists(id)
       THEN resp' = Http("list_ppa_invoices", id, 404, "PPA not found")
       ELSE resp' = Http("list_ppa_invoices", id, 200,
                         {i \in DOMAIN invoices :
                            /\ "ppa_id" \in DOMAIN invoices[i]
                            /\ invoices[i].ppa_id = id})
    /\ UNCHANGED <<now, ppas, obj, invoices, db>>

\* one or two active monthly contracts of different customers
InitInvoices ==
    /\ now = Day0 + 30
    /\ \E S \in {{"p1"}, PpaIds} :
         ppas = [id \in S |->
                   [PPADoc(IF id = "p1" THEN "c1" ELSE "c2", Day0, Day0 + 370, "active",
                           BillingTerms(100000, "fixed_percentage", Frac(1, 10), None,
                                        "monthly", "capex"))
                      EXCEPT !.business_model = "capex"]
                   @@ [opex_payment_history |-> <<>>, updated_at |-> None]]
    /\ invoices = <<>>
    /\ db = EmptyDb
    /\ resp = NoResp
    /\ obj = None

NextInvoices ==
    \/ TickLedger
    \/ \E id \in PpaIds, kwh \in KwhChoices : CreateInvoice(id, kwh)
    \/ \E id \in PpaIds, inv \in InvoiceIds : PayInvoice(id, inv)
    \/ \E id \in PpaIds : ListPpaInvoices(id)

SpecInvoices == InitInvoices /\ [][NextInvoices]_vars

\* =================================================================
\* OPEX contracts (ppa_generator.py, main.py)
\* =================================================================

\* opex_monthly_fee (cents) and opex_energy_rate (cents per kWh) of the
\* OPEX terms; the validator of BillingTerms wants both greater than 0
OpexFees == {500, 700}

OpexRates == {2, 3}

\* energy_consumed_kwh passed to calculate_opex_monthly_payment
OpexKwh == {0, 5, 10}

\* valid OPEX billing terms
OpexTerms(fee, rate) ==
    FullTerms(BillingTerms(100000, "fixed_percentage", Frac(1, 10), None, "monthly", "opex"),
              None, None, Some(fee), Some(rate))

\* stored contracts of about a year from Day0 in each status: OPEX ones,
\* whose business_model field says opex as their terms do, and a CAPEX one
OpexDocs ==
    {[PPADoc("c1", Day0, Day0 + 370, st, OpexTerms(fee, rate))
        EXCEPT !.business_model = "opex"] @@ [opex_payment_history |-> <<>>, updated_at |-> None] :
        st \in ContractStatus, fee \in OpexFees, rate \in OpexRates}
    \cup
    {PPADoc("c1", Day0, Day0 + 370, st, CapexTerms("fixed_percentage", None))
        @@ [opex_payment_history |-> <<>>, updated_at |-> None] :
        st \in ContractStatus}

\* x or 0.0 on an Optional[float]
OrZero(x) == IF x = None THEN 0 ELSE x[1]

\* PPA.calculate_opex_monthly_payment(energy_consumed_kwh), in cents
CalculateOpexMonthlyPayment(ppa, kwh) ==
    IF ppa.business_model # "opex" THEN 0
    ELSE OrZero(ppa.billing_terms.opex_monthly_fee)
         + OrZero(ppa.billing_terms.opex_energy_rate) * kwh

\* ppa.calculate_opex_monthly_payment(kwh) on the PPA loaded from the store
CallCalculateOpexMonthlyPayment(id, kwh) ==
    /\ Exists(id)
    /\ resp' = [op |-> "calculate_opex_monthly_payment", id |-> id, kwh |-> kwh,
                result |-> CalculateOpexMonthlyPayment(ppas[id], kwh)]
    /\ UNCHANGED <<now, ppas, obj, invoices, db>>

InitOpex ==
    /\ now = Day0 + 30
    /\ \E d \in OpexDocs : ppas = [id \in {"p1"} |-> d]
    /\ invoices = <<>>
    /\ db = EmptyDb
    /\ resp = NoResp
    /\ obj = None

NextOpex ==
    \/ \E id \in PpaIds, kwh \in OpexKwh : CallCalculateOpexMonthlyPayment(id, kwh)
    \/ \E id \in PpaIds, a \in OpexAmounts, e \in OpexEnergies : RecordOpexPayment(id, a, e)
    \/ \E sp \in SystemSpecs, fee \in OpexFees, rate \in OpexRates, sd \in {now, now + 1} :
         GeneratePpa("c2", sp, OpexTerms(fee, rate), sd, sd + 365)

SpecOpex == InitOpex /\ [][NextOpex]_vars

\* =================================================================
\* A contract that runs out (ppa_generator.py, main.py)
\* =================================================================

\* the stored PPA of the expiry runs: a contract that started 350 days
\* before Day0 and ends 15 days after it, in each status and business model
ExpiringDocs ==
    {[PPADoc("c1", Day0 - 350, Day0 + 15, st,
             BillingTerms(100000, "fixed_percentage", Frac(1, 10), None, "monthly", bm))
        EXCEPT !.business_model = bm] @@ [opex_payment_history |-> <<>>, updated_at |-> None] :
        st \in ContractStatus, bm \in {"capex", "opex"}}

InitExpiry ==
    /\ now = Day0
    /\ \E d \in ExpiringDocs : ppas = [id \in {"p1"} |-> d]
    /\ invoices = <<>>
    /\ db = EmptyDb
    /\ resp = NoResp
    /\ obj = None

\* the requests of the ledger, while the end date comes and goes
SpecExpiry == InitExpiry /\ [][NextLedger]_vars

\* =================================================================
\* Two calls of get_dynamic_tariff in a row (ppa_generator.py)
\* =================================================================

\* contract_date of the requests: before and after the instant of the calls
CacheDates == {25, 35}

CacheRequests ==
    [discom_id : {"d1"}, state_code : {"DL"}, tariff_category : {"residential_low"},
     customer_type : CustomerTypes, contract_date : CacheDates]

\* the store answers every read of the two calls
NoFailure == [discoms |-> FALSE, tariffs |-> FALSE]

\* a later call of get_dynamic_tariff on the collections the first call
\* left; obj keeps the record of the first call
GetDynamicTariffAgain(request, api) ==
    LET out == DynamicTariffOutcome(db, request, api, NoFailure, FALSE, now)
    IN  /\ resp # NoResp /\ resp.op = "get_dynamic_tariff"
        /\ obj = None
        /\ obj' = Some(resp)
        /\ resp' = [op |-> "get_dynamic_tariff", request |-> request, api |-> api,
                    fails |-> NoFailure, raises |-> FALSE,
                    tiers |-> out.tiers, tariff |-> out.tariff]
        /\ db' = [db EXCEPT !.tariffs = out.tariffs]
        /\ UNCHANGED <<now, ppas, invoices>>

\* any DISCOM record; no tariff or one tariff in the store
InitCache ==
    /\ now = 30
    /\ ppas = <<>>
    /\ invoices = <<>>
    /\ obj = None
    /\ resp = NoResp
    /\ db \in [discoms : DiscomStores, tariffs : {q \in TariffStores : Len(q) <= 1}]

NextCache ==
    \/ \E request \in CacheRequests, api \in ApiOutcomes :
         GetDynamicTariff(request, api, NoFailure, FALSE)
    \/ \E request \in CacheRequests, api \in ApiOutcomes :
         GetDynamicTariffAgain(request, api)

SpecCache == InitCache /\ [][NextCache]_vars

\* =================================================================
\* Two create_invoice requests in flight at once (main.py)
\* =================================================================
\* Each request awaits get_ppa_by_id, then generate_invoice's set(), then
\* update_ppa_billing's get() and update(), so the steps of the two
\* requests interleave.  obj holds, for each request, its position and the
\* PPA object it built from the document it read.  generated_at is the
\* instant generate_invoice ran, kept with the invoice for the properties.

\* get_ppa_by_id and the three checks of create_invoice on the object read
InvoiceFetch(h) ==
    /\ obj[h].pc = "start"
    /\ IF ~Exists("p1")
       THEN /\ obj' = [obj EXCEPT ![h].pc = "done"]
            /\ resp' = Http("create_invoice", h, 404, "PPA not found")
       ELSE IF ~IsActive(ppas["p1"], now)
       THEN /\ obj' = [obj EXCEPT ![h].pc = "done"]
            /\ resp' = Http("create_invoice", h, 400, "PPA is not active")
       ELSE IF ~ShouldGenerateInvoice(ppas["p1"], now)
       THEN /\ obj' = [obj EXCEPT ![h].pc = "done"]
            /\ resp' = Http("create_invoice", h, 400, "No invoice needed at this time")
       ELSE /\ obj' = [obj EXCEPT ![h].pc = "checked", ![h].ppa = Some(ppas["p1"])]
            /\ resp' = resp
    /\ UNCHANGED <<now, ppas, invoices, db>>

\* calculate_current_tariff and generate_invoice: the invoice is stored
InvoiceGenerate(h) ==
    /\ obj[h].pc = "checked"
    /\ LET ppa == obj[h].ppa[1]
           tariff == CalculateCurrentTariff(ppa, now, now).rate
           amount == CalculateInvoiceAmount(1, tariff)
       IN  \E inv \in InvoiceIds \ DOMAIN invoices :
             /\ invoices' = [i \in DOMAIN invoices \cup {inv} |->
                               IF i = inv
                               THEN [customer_id |-> ppa.customer_id, kwh_used |-> 1,
                                     tariff_rate |-> tariff, total_amount |-> amount,
                                     status |-> "pending", paid_at |-> None,
                                     generated_at |-> now]
                               ELSE invoices[i]]
             /\ obj' = [obj EXCEPT ![h].pc = "generated", ![h].invoice = Some(inv)]
    /\ UNCHANGED <<now, ppas, resp, db>>

\* update_ppa_billing: ppa_ref.get() and PPA(**ppa_doc.to_dict())
InvoiceBillingFetch(h) ==
    /\ obj[h].pc = "generated"
    /\ obj' = [obj EXCEPT ![h].pc = "billing", ![h].ppa = Some(ppas["p1"])]
    /\ UNCHANGED <<now, ppas, resp, invoices, db>>

\* update_ppa_billing: ppa_ref.update(update_data); the invoice is returned
InvoiceBillingWrite(h) ==
    /\ obj[h].pc = "billing"
    /\ LET ppa == obj[h].ppa[1]
           base == IF ppa.last_billing_date # None THEN ppa.last_billing_date[1]
                   ELSE ppa.start_date
           cycle == ppa.billing_terms.billing_cycle
       IN  ppas' = [ppas EXCEPT
                      !["p1"].total_billed =
                          ppa.total_billed + invoices[obj[h].invoice[1]].total_amount,
                      !["p1"].last_billing_date = Some(now),
                      !["p1"].next_billing_date =
                          IF cycle = "monthly" THEN Some(FirstOfMonth(base + 32))
                          ELSE IF cycle = "quarterly" THEN Some(FirstOfMonth(base + 92))
                          ELSE @]
    /\ obj' = [obj EXCEPT ![h].pc = "done"]
    /\ resp' = Http("create_invoice", h, 200, obj[h].invoice[1])
    /\ UNCHANGED <<now, invoices, db>>

\* an active contract of about a year at 1.00 currency/kWh in each billing
\* cycle (or no contract), and two requests not yet started
InitInvoiceRace ==
    /\ now = Day0 + 30
    /\ \/ ppas = <<>>
       \/ \E cy \in BillingCycles, st \in ContractStatus :
            ppas = [id \in {"p1"} |->
                      PPADoc("c1", Day0, Day0 + 370, st,
                             BillingTerms(100000, "fixed_percentage", Frac(1, 10), None, cy, "capex"))]
    /\ obj = [h \in Handlers |-> [pc |-> "start", ppa |-> None, invoice |-> None]]
    /\ invoices = <<>>
    /\ db = EmptyDb
    /\ resp = NoResp

NextInvoiceRace ==
    \/ TickLedger
    \/ \E h \in Handlers : InvoiceFetch(h)
    \/ \E h \in Handlers : InvoiceGenerate(h)
    \/ \E h \in Handlers : InvoiceBillingFetch(h)
    \/ \E h \in Handlers : InvoiceBillingWrite(h)

SpecInvoiceRace == InitInvoiceRace /\ [][NextInvoiceRace]_vars

\* =================================================================
\* Properties of the ledger (SpecLedger)
\* =================================================================

\* C11: once a PPA's stored contractStatus is expired or terminated, no
\* operation changes it to draft or active.
C11_TerminalStatesStay ==
    [][\A id \in DOMAIN ppas :
         ppas[id].contractStatus \in {"expired", "terminated"}
         => ppas'[id].contractStatus \notin {"draft", "active"}]_vars

\* C12: from one stored state to the next the running totals
\* total_energy_produced, total_billed and total_paid never decrease.
C12_TotalsNeverDecrease ==
    [][\A id \in DOMAIN ppas :
         /\ ppas'[id].total_energy_produced >= ppas[id].total_energy_produced
         /\ ppas'[id].total_billed >= ppas[id].total_billed
         /\ ppas'[id].total_paid >= ppas[id].total_paid]_vars

\* C13: in every reachable state of a PPA total_billed >= total_paid.
C13_BilledCoversPaid ==
    \A id \in DOMAIN ppas : ppas[id].total_billed >= ppas[id].total_paid

\* =================================================================
\* Properties of the dynamic tariff resolver (SpecDynamic)
\* =================================================================

DynamicCalled == resp.op = "get_dynamic_tariff"

\* the DISCOM of the request has an active record with endpoint and key
ApiConfigured ==
    /\ resp.request.discom_id \in DOMAIN db.discoms
    /\ db.discoms[resp.request.discom_id].is_active
    /\ db.discoms[resp.request.discom_id].api_endpoint # None
    /\ db.discoms[resp.request.discom_id].api_key # None

\* the API tier yields a tariff during the recorded call
ApiYields == ApiConfigured /\ ~resp.fails.discoms /\ resp.api = "ok"

\* the stored tariffs eligible for the recorded request: active, matching
\* (discom, state, category, customer type), effective at contract_date
EligibleStored ==
    {i \in 1..Len(db.tariffs) :
        /\ db.tariffs[i].discom_id = Some(resp.request.discom_id)
        /\ db.tariffs[i].state_code = resp.request.state_code
        /\ db.tariffs[i].tariff_category = resp.request.tariff_category
        /\ db.tariffs[i].customer_type = resp.request.customer_type
        /\ db.tariffs[i].is_active = Some(TRUE)
        /\ db.tariffs[i].effective_from <= resp.request.contract_date
        /\ \/ db.tariffs[i].effective_until = None
           \/ db.tariffs[i].effective_until[1] >= resp.request.contract_date}

\* the stored tier yields a tariff during the recorded call
StoredYields == ~resp.fails.tariffs /\ EligibleStored # {}

TierRank(tier) ==
    IF tier = "discom_api" THEN 1 ELSE IF tier = "database" THEN 2
    ELSE IF tier = "rules" THEN 3 ELSE 4

InTiers(tier) == \E i \in 1..Len(resp.tiers) : resp.tiers[i] = tier

C15_SourceFailuresNotFatal ==
    DynamicCalled =>
        /\ resp.tariff # None
        /\ (ApiConfigured /\ (resp.api # "ok" \/ resp.fails.discoms)) => InTiers("database")
        /\ resp.fails.tariffs /\ ~ApiYields => InTiers("rules")
        /\ resp.fails.tariffs /\ ~ApiYields =>
              resp.tariff[1].source \in {"calculated", "manual_override"}
        /\ ~ApiYields /\ StoredYields => resp.tariff[1].source = "regulatory_order"

\* every source fails in one call and the rules answer
C15_Witness ==
    /\ DynamicCalled
    /\ ApiConfigured
    /\ resp.api = "unparsable"
    /\ resp.fails.tariffs
    /\ EligibleStored # {}
    /\ resp.tariff = Some(TariffResponse("calculated", 800000, now, "calculated"))

\* C16: in the stored tier only the active matching tariffs effective at
\* contract_date are eligible; the one returned is an eligible one with the
\* latest effective_from of all eligible ones, whatever the order of the
\* store; with none eligible the tier yields nothing.
C16_LatestEligibleStored ==
    (DynamicCalled /\ InTiers("database") /\ ~resp.fails.tariffs) =>
        IF EligibleStored = {}
        THEN InTiers("rules")
        ELSE /\ ~InTiers("rules")
             /\ \E i \in EligibleStored :
                   /\ resp.tariff[1].tariff_id = db.tariffs[i].tariff_id
                   /\ resp.tariff[1].base_rate = db.tariffs[i].base_rate
                   /\ resp.tariff[1].effective_from = db.tariffs[i].effective_from
                   /\ \A j \in EligibleStored :
                         db.tariffs[j].effective_from <= db.tariffs[i].effective_from

\* two eligible tariffs, the store returns the earlier one first, and an
\* ineligible or non-matching one is not needed: the later one is returned
C16_Witness ==
    /\ DynamicCalled
    /\ InTiers("database")
    /\ \E i, j \in EligibleStored :
          /\ i < j
          /\ db.tariffs[i].effective_from < db.tariffs[j].effective_from
          /\ resp.tariff[1].tariff_id = db.tariffs[j].tariff_id

\* =================================================================
\* Properties of PPA creation (SpecCreate)
\* =================================================================

CreateCalled == resp.op = "create_ppa"

\* the message of the check that answers for each kind of fault
FaultMessages(fault) ==
    IF fault = "tariff_rate" THEN {"Tariff rate must be greater than 0"}
    ELSE IF fault = "escalation_rate" THEN {"Escalation rate cannot be negative"}
    ELSE IF fault = "billing_cycle" THEN {"Invalid billing cycle"}
    ELSE IF fault = "payment_terms" THEN {"Invalid payment terms"}
    ELSE IF fault = "latePaymentPenaltyRate" THEN {"latePaymentPenaltyRate cannot exceed 10%"}
    ELSE IF fault = "schedule_years_unique" THEN {"Escalation schedule years must be unique"}
    ELSE IF fault = "schedule_years_start" THEN {"Escalation schedule years must start from 1"}
    ELSE IF fault = "business_model_amount"
         THEN {"CAPEX amount must be specified and greater than 0 for CAPEX model",
               "OPEX monthly fee must be specified and greater than 0 for OPEX model",
               "OPEX energy rate must be specified and greater than 0 for OPEX model"}
    ELSE IF fault = "dates" THEN {"Start date must be before end date"}
    ELSE {}

C18_NoOverlappingContracts ==
    /\ NoOverlapIn({ppas[id] : id \in DOMAIN ppas})
    /\ (/\ CreateCalled
        /\ resp.request.fault = "none"
        /\ CheckOverlappingPpa(resp.request.customer_id, resp.request.start_date,
                               resp.request.end_date))
       => resp.status = 422 /\ resp.errorCode = "PPA_OVERLAP"

\* =================================================================
\* Properties of concurrent ledger updates (SpecRace)
\* =================================================================

\* both calls ran to the end on an existing document
BothCompleted == \A h \in Handlers : obj[h].pc = "done" /\ obj[h].ppa # None

\* both calls add to the same total and each read it before the other wrote
SameTotalReadTogether ==
    /\ obj["h1"].op = obj["h2"].op
    /\ obj["h1"].ppa[1][TotalField(obj["h1"].op)] = obj["h2"].ppa[1][TotalField(obj["h2"].op)]

\* C19: the read-modify-write of the ledger loses updates: when two updates
\* of the same total of one PPA both read the document before either
\* writes, both complete, and the stored total is the value read plus the
\* amount of the call that wrote last, not plus the sum of the two amounts;
\* updates of different totals do not disturb each other.
C19_LostUpdate ==
    BothCompleted =>
        IF SameTotalReadTogether
        THEN LET f == TotalField(obj["h1"].op)
                 read == obj["h1"].ppa[1][f]
             IN  /\ resp.result = "ok"
                 /\ ppas["p1"][f] = read + obj[resp.handler].amount
                 /\ ppas["p1"][f] # read + obj["h1"].amount + obj["h2"].amount
        ELSE \A h \in Handlers :
               ppas["p1"][TotalField(obj[h].op)] >=
                   obj[h].ppa[1][TotalField(obj[h].op)] + obj[h].amount

\* two billing updates of 1 and 2 both completed and total_billed went
\* from 0 to 1
C19_Witness ==
    /\ BothCompleted
    /\ obj["h1"].op = "update_ppa_billing" /\ obj["h2"].op = "update_ppa_billing"
    /\ obj["h1"].amount = 1 /\ obj["h2"].amount = 2
    /\ obj["h1"].ppa[1].total_billed = 0 /\ obj["h2"].ppa[1].total_billed = 0
    /\ ppas["p1"].total_billed = 1

\* =================================================================
\* Properties of the authentication (SpecAuth)
\* =================================================================

\* the tokens whose verification fails
FailingTokens == Tokens \ {"valid"}

\* the step is a request with a failing token, answered in resp'
FailingRequest == resp' # NoResp /\ resp'.token \in FailingTokens

BillingRecorded(id) ==
    /\ id \in DOMAIN ppas
    /\ resp'.op = "update_ppa_billing" /\ resp'.id = id /\ resp'.result = "ok"
    /\ ppas'[id].total_billed # ppas[id].total_billed

\* day d is the first day of the month that day n lies in
IsFirstOfMonthOf(d, n) ==
    /\ CivilFromDays(d).day = 1
    /\ d <= n
    /\ n - d < DaysInMonth(CivilFromDays(d).year, CivilFromDays(d).month)

\* last_billing_date before the billing if present, else the contract start
BaseDate(ppa) ==
    IF ppa.last_billing_date = None THEN ppa.start_date ELSE ppa.last_billing_date[1]

\* C21: a billing recorded through update_ppa_billing stores as
\* next_billing_date the first day of the month of base_date + 32 days for a
\* monthly cycle and of base_date + 92 days for a quarterly cycle, where
\* base_date is the last_billing_date the PPA had before the billing, or the
\* contract start when it had none; for an annual cycle the stored
\* next_billing_date is left as it was.
C21_NextBillingDate ==
    [][\A id \in PpaIds :
         BillingRecorded(id) =>
           LET cycle == ppas[id].billing_terms.billing_cycle
               base == BaseDate(ppas[id])
               next == ppas'[id].next_billing_date
           IN  /\ cycle = "monthly" => next # None /\ IsFirstOfMonthOf(next[1], base + 32)
               /\ cycle = "quarterly" => next # None /\ IsFirstOfMonthOf(next[1], base + 92)
               /\ cycle = "annually" => next = ppas[id].next_billing_date]_vars

\* a monthly PPA was billed twice and its next_billing_date, a first of a
\* month, lies beyond the month after its start: the second billing took
\* the first billing's date for base_date
C21_Witness ==
    /\ Exists("p1")
    /\ ppas["p1"].billing_terms.billing_cycle = "monthly"
    /\ ppas["p1"].total_billed = 2
    /\ ppas["p1"].next_billing_date # None
    /\ CivilFromDays(ppas["p1"].next_billing_date[1]).day = 1
    /\ ppas["p1"].next_billing_date[1] > ppas["p1"].start_date + 32

\* =================================================================
\* Properties of the invoices (SpecInvoices, SpecLedger)
\* =================================================================

\* the step lists the invoices of a PPA right after create_invoice succeeded
ListedAfterCreate ==
    /\ resp # NoResp /\ resp.op = "create_invoice" /\ resp.status = 200
    /\ resp'.op = "list_ppa_invoices" /\ resp'.status = 200

\* C22: after create_invoice succeeds for PPA p, list_ppa_invoices(p)
\* contains the invoice it generated, and list_ppa_invoices of another PPA
\* does not.
C22_ListContainsGenerated ==
    [][ListedAfterCreate =>
         (resp.detail \in resp'.detail) = (resp.id = resp'.id)]_vars

\* =================================================================
\* Properties of the OPEX contracts (SpecOpex)
\* =================================================================

\* the billing terms of the stored PPA id declare the OPEX model
DeclaresOpex(id) == Exists(id) /\ ppas[id].billing_terms.business_model = "opex"

\* C23: for every PPA whose billing terms declare the OPEX model,
\* calculate_opex_monthly_payment(kwh) returns opex_monthly_fee +
\* opex_energy_rate * kwh and record_opex_payment does not refuse it as not
\* being an OPEX PPA; generate_ppa with valid OPEX billing terms creates a
\* PPA whose own business_model is opex, as its billing terms say.
C23_OpexPaymentFormula ==
    /\ (resp.op = "calculate_opex_monthly_payment" /\ DeclaresOpex(resp.id))
       => resp.result = ppas[resp.id].billing_terms.opex_monthly_fee[1]
                        + ppas[resp.id].billing_terms.opex_energy_rate[1] * resp.kwh
    /\ (resp.op = "record_opex_payment" /\ DeclaresOpex(resp.id))
       => ~(resp.status = 400 /\ resp.detail = "This PPA is not an OPEX model")
    /\ (/\ resp.op = "generate_ppa"
        /\ ValidRequest(resp.request, resp.at)
        /\ resp.request.billing_terms.business_model = "opex")
       => /\ resp.result = "ok"
          /\ resp.id \in DOMAIN ppas
          /\ ppas[resp.id].business_model = "opex"
          /\ ppas[resp.id].billing_terms = resp.request.billing_terms

\* =================================================================
\* Properties of the as-of date (SpecTariff)
\* =================================================================

\* C24: calculate_current_tariff decides activity at the date passed in, not
\* at the time of the call: for a date outside [start_date, end_date] it
\* returns 0 even when the contract is active at the time of the call, and
\* for a date inside the window of a contract with status active it returns
\* the escalated rate of that date, whenever the call is made.
C24_ActivityAtAsOfDate ==
    TariffCalled =>
        IF resp.date < obj.start_date \/ resp.date > obj.end_date
        THEN resp.rate = 0
        ELSE obj.contractStatus = "active"
               => resp.rate = CalculateCurrentTariff(obj, resp.date, resp.date).rate

\* =================================================================
\* Properties of the expiry (SpecExpiry)
\* =================================================================

\* the step answers an energy-usage, invoice-generation or OPEX-payment
\* request for PPA id
LedgerRequest(id) ==
    /\ now' = now
    /\ resp'.op \in {"add_energy_usage", "create_invoice", "record_opex_payment"}
    /\ resp'.id = id

\* C25: expiry is a read-time check only: no operation writes contractStatus
\* expired, a contract whose end_date has passed is not is_active() even
\* while its stored status reads active, and every energy-usage,
\* invoice-generation and OPEX-payment request made for it after its
\* end_date is rejected with status 400 and changes nothing.
C25_ExpiryAtReadTime ==
    [][\A id \in DOMAIN ppas :
         /\ ppas'[id].contractStatus = "expired" => ppas[id].contractStatus = "expired"
         /\ now > ppas[id].end_date =>
              /\ ~IsActive(ppas[id], now)
              /\ LedgerRequest(id) =>
                   /\ resp'.status = 400
                   /\ ppas' = ppas /\ invoices' = invoices]_vars

\* after its end date a PPA whose stored status still reads active was
\* refused an invoice as not active
C25_Witness ==
    /\ Exists("p1")
    /\ now > ppas["p1"].end_date
    /\ ppas["p1"].contractStatus = "active"
    /\ resp.op = "create_invoice" /\ resp.id = "p1"
    /\ resp.status = 400 /\ resp.detail = "PPA is not active"

\* =================================================================
\* Properties of the tariff cache (SpecCache)
\* =================================================================

\* the key (discom, state, category, customer type) of a request
TariffKey(request) ==
    <<request.discom_id, request.state_code, request.tariff_category, request.customer_type>>

\* the first call was answered by the API for the customer type it asked
\* for, and the second call, for the same key and a date inside the
\* tariff's effective window, found the API unavailable
CachedThenApiDown ==
    /\ DynamicCalled /\ obj # None
    /\ obj[1].tiers = <<"discom_api">> /\ obj[1].tariff # None
    /\ obj[1].request.customer_type = "residential"
    /\ TariffKey(resp.request) = TariffKey(obj[1].request)
    /\ resp.request.contract_date >= obj[1].tariff[1].effective_from
    /\ resp.api # "ok"

\* C26: after get_dynamic_tariff returned a tariff from the API, the tariff
\* is in the store, and a later call for the same key and a date inside its
\* effective window, made while the API is unavailable, is answered by
\* the stored-tariff tier with that tariff and not by the rule-based default.
C26_ApiFetchCached ==
    CachedThenApiDown =>
        /\ \E i \in 1..Len(db.tariffs) :
             db.tariffs[i].tariff_id = obj[1].tariff[1].tariff_id
        /\ resp.tiers[Len(resp.tiers)] = "database"
        /\ resp.tariff # None
        /\ resp.tariff[1].tariff_id = obj[1].tariff[1].tariff_id
        /\ resp.tariff[1].base_rate = obj[1].tariff[1].base_rate

\* =================================================================
\* Properties of the rejected requests (SpecLedger)
\* =================================================================

\* the stored PPA id is not due for an invoice: it was billed less than a
\* cycle ago
NotDue(id) ==
    /\ ppas[id].last_billing_date # None
    /\ now - ppas[id].last_billing_date[1] < CycleDays(ppas[id].billing_terms.billing_cycle)

\* the step leaves every PPA, invoice and usage record as it was
StoreUntouched == ppas' = ppas /\ invoices' = invoices /\ db' = db

\* C27: add_energy_usage, create_invoice and record_opex_payment answer 404
\* for an unknown PPA and 400 for a PPA that is not is_active(), and
\* create_invoice answers 400 for an active PPA that is not due for an
\* invoice; each of these rejected requests creates no invoice and no usage
\* record and leaves the stored PPAs unchanged.
C27_RejectedChangesNothing ==
    [][\A id \in PpaIds :
         LedgerRequest(id) =>
           /\ ~Exists(id) => resp'.status = 404 /\ StoreUntouched
           /\ (Exists(id) /\ ~ActiveNow(ppas[id])) => resp'.status = 400 /\ StoreUntouched
           /\ (Exists(id) /\ ActiveNow(ppas[id]) /\ resp'.op = "create_invoice" /\ NotDue(id))
                => resp'.status = 400 /\ StoreUntouched
           /\ resp'.status \in {400, 404} => StoreUntouched]_vars

\* an invoice was refused as not needed while the one invoice generated
\* before is still the only one and the PPA's billed total is its amount
C27_Witness ==
    /\ resp.op = "create_invoice" /\ resp.status = 400
    /\ resp.detail = "No invoice needed at this time"
    /\ DOMAIN invoices = {"i1"}
    /\ Exists("p1") /\ ppas["p1"].total_billed = invoices["i1"].total_amount
    /\ ppas["p1"].last_billing_date = Some(now)

\* =================================================================
\* Properties of the history logs (SpecLedger)
\* =================================================================

\* the sum of field f over the entries of a log
RECURSIVE SumOf(_, _)
SumOf(log, f) == IF log = <<>> THEN 0 ELSE log[1][f] + SumOf(Tail(log), f)

\* C28: in every state of a stored PPA total_energy_produced is the sum of
\* kwh over energy_production_history, total_billed the sum of the amounts
\* of billing_history, total_paid the sum of the amounts of payment_history
\* and opex_payment_history, and the last entry of billing_history carries
\* the date stored as last_billing_date.
C28_TotalsFromHistory ==
    \A id \in DOMAIN ppas :
        LET ppa == ppas[id]
        IN  /\ ppa.total_energy_produced = SumOf(ppa.energy_production_history, "kwh")
            /\ ppa.total_billed = SumOf(ppa.billing_history, "amount")
            /\ ppa.total_paid = SumOf(ppa.payment_history, "amount")
                                + SumOf(ppa.opex_payment_history, "amount")
            /\ ppa.last_billing_date # None =>
                 /\ ppa.billing_history # <<>>
                 /\ ppa.billing_history[Len(ppa.billing_history)].date = ppa.last_billing_date[1]

\* =================================================================
\* Properties of the payments (SpecInvoices)
\* =================================================================

\* the step answers pay_invoice for PPA id and invoice inv with success
Paid(id, inv) ==
    /\ resp'.op = "pay_invoice" /\ resp'.id = id
    /\ resp'.status = 200 /\ resp'.detail = inv

\* C29: paying an invoice is counted once and for its own PPA: a
\* pay_invoice on an invoice already in status paid does not increase
\* total_paid, the amount is credited only when the invoice belongs to the
\* customer of the PPA named in the request, and no step takes an invoice
\* from paid back to pending.
C29_PayCountedOnce ==
    [][/\ \A id \in PpaIds, inv \in DOMAIN invoices :
            Paid(id, inv) =>
              /\ invoices[inv].status = "paid"
                    => ppas'[id].total_paid = ppas[id].total_paid
              /\ invoices[inv].customer_id # ppas[id].customer_id
                    => ppas'[id].total_paid = ppas[id].total_paid
       /\ \A inv \in DOMAIN invoices :
            invoices[inv].status = "paid" => invoices'[inv].status = "paid"]_vars

\* =================================================================
\* Properties of concurrent invoice generation (SpecInvoiceRace)
\* =================================================================

\* C30: any two invoices generated by create_invoice for the same PPA lie
\* at least the cycle threshold (30, 90 or 365 days) apart, under every
\* interleaving of concurrent create_invoice requests.
C30_OneInvoicePerCycle ==
    \A i, j \in DOMAIN invoices :
        (i # j /\ invoices[i].generated_at <= invoices[j].generated_at)
        => invoices[j].generated_at - invoices[i].generated_at
             >= CycleDays(ppas["p1"].billing_terms.billing_cycle)

====
